---- MODULE Spec2Model ----
(***************************************************************************)
(* Verification model of riegeli's layered buffered reader/writer core:    *)
(*   - PullableReader (the scratch mechanism), pullable_reader.cc          *)
(*   - BufferedWriter, buffered_writer.cc                                  *)
(* Objects are records; every C++ method is an operator from the object    *)
(* (and its arguments) to the object after the call plus the return value. *)
(***************************************************************************)
EXTENDS Integers, Sequences, FiniteSets, TLC

VARIABLES
  data,      \* contents of the reader's source
  rd,        \* the PullableReader (with its leaf: fragments, failure, random access)
  out,       \* bytes delivered by the Read calls so far, kept while hist = "readpull"
  hist,      \* "readpull" while only Read(char*) and Pull were called, else "mixed"
  last,      \* the last public call: name, arguments, result, state before
  tw,        \* a second reader over the same data, one byte per fragment
  tlast,     \* the last public call on tw
  step,      \* how far the run has followed the fragmented-pull scenario
  w,         \* the BufferedWriter (with its leaf: the sink behind WriteInternal)
  written,   \* every byte the caller has written so far, in order
  wlast,     \* the last public call on w
  ir,        \* the IStreamReader together with the std::istream it reads
  ilast,     \* the last public call on ir
  ck,        \* the FILE cookie together with its Writer and read-mode Reader
  clast      \* the last callback made on ck

vars == <<data, rd, tw, out, hist, last, tlast, step, w, written, wlast,
          ir, ilast, ck, clast>>
rvars == <<data, rd, tw, out, hist, last, tlast, step>>
wvars == <<w, written, wlast>>
ivars == <<ir, ilast>>
cvars == <<ck, clast>>

(***************************************************************************)
(* Bounds                                                                  *)
(***************************************************************************)
MaxLen == 4      \* longest source
MaxReq == 5      \* largest length asked of Pull / Read
MaxSlack == 1    \* most bytes an allocation returns beyond the minimum asked

\* Library constants, scaled down so that requests of the model cross them.
kMaxBytesToCopy == 2
kMaxBufferSize == 3
kArrayOfZerosSize == 2

\* Writer bounds
MaxPosition == 9    \* std::numeric_limits<Position>::max(), scaled down
MaxOffset == 4      \* the largest signed 64-bit offset, scaled down
MaxWritten == 4     \* most bytes the caller writes in a run
MaxWrite == 3       \* longest single Write
MaxBufferSize == 2  \* largest buffer_size_
MaxSizeHint == 3    \* largest size_hint_

Alphabet == <<"a", "b", "c", "d", "e", "f", "g", "h", "i", "j">>

UnsignedMin(a, b) == IF a <= b THEN a ELSE b
UnsignedMax(a, b) == IF a >= b THEN a ELSE b
SaturatingAdd(a, b) == a + b   \* no request of the model is near size_t's maximum

(***************************************************************************)
(* Addresses.  A pointer is an integer: 0 is nullptr, the byte of the      *)
(* source at stream position p lives at address p + 1, and the scratch     *)
(* buffer lives at ScratchData and above.                                  *)
(***************************************************************************)
NullPtr == 0
SrcAddr(p) == p + 1
ScratchData == Len(Alphabet) + 2

(***************************************************************************)
(* Reader base: buffer pointers (reader.h; stated in the specification)    *)
(***************************************************************************)
available(r) == r.limit - r.cursor
start_to_cursor(r) == r.cursor - r.start
start_to_limit(r) == r.limit - r.start
pos(r) == r.limit_pos - available(r)
start_pos(r) == r.limit_pos - start_to_limit(r)
set_buffer(r, s, stl, stc) ==
  [r EXCEPT !.start = s, !.cursor = s + stc, !.limit = s + stl]
move_cursor(r, n) == [r EXCEPT !.cursor = @ + n]
set_cursor(r, c) == [r EXCEPT !.cursor = c]
move_limit_pos(r, n) == [r EXCEPT !.limit_pos = @ + n]
set_limit_pos(r, p) == [r EXCEPT !.limit_pos = p]

\* Object::Fail as overridden by Reader: terminal status, empty buffer.
FailWith(r, code) ==
  IF r.ok
    THEN [set_buffer(r, NullPtr, 0, 0) EXCEPT !.ok = FALSE, !.status = code]
    ELSE r
Fail(r) == FailWith(r, "unknown")

scratch_used(r) == r.sp /\ r.sbuf # <<>>

\* RIEGELI_ASSERT(!scratch_used()) at the head of a ...BehindScratch hook:
\* hook_in_scratch keeps whether the assertion ever failed.
BehindScratchHook(r) ==
  IF scratch_used(r) THEN [r EXCEPT !.hook_in_scratch = TRUE] ELSE r

\* A byte that was never written (a read outside every buffer, or a byte
\* of a destination that no copy reached).
Uninit == "?"

\* The byte at address p as the reader sees it.
ByteAt(r, p) ==
  IF p >= ScratchData
    THEN IF p - ScratchData + 1 \in DOMAIN r.sbuf
           THEN r.sbuf[p - ScratchData + 1] ELSE Uninit
    ELSE IF p \in DOMAIN data THEN data[p] ELSE Uninit

\* The n bytes starting at address p.
Bytes(r, p, n) == [i \in 1..n |-> ByteAt(r, p + i - 1)]

\* The contiguous view cursor .. limit.
View(r) == Bytes(r, r.cursor, available(r))

(***************************************************************************)
(* The leaf: a source that yields its contents in fragments, one fragment  *)
(* per PullBehindScratch (the pure virtual hook of PullableReader).        *)
(***************************************************************************)
RECURSIVE SumTo(_, _)
SumTo(s, k) == IF k = 0 THEN 0 ELSE s[k] + SumTo(s, k - 1)

PullBehindScratch(r0) ==
  LET r == BehindScratchHook(r0) IN
  IF ~r.ok THEN [r |-> r, ret |-> FALSE]
  ELSE IF r.failAt = r.frag + 1
    THEN [r |-> Fail(r), ret |-> FALSE]
  ELSE IF r.frag >= Len(r.cuts)
    THEN [r |-> r, ret |-> FALSE]
  ELSE LET n == r.cuts[r.frag + 1]
           r1 == set_buffer(r, SrcAddr(SumTo(r.cuts, r.frag)), n, 0)
       IN [r |-> [move_limit_pos(r1, n) EXCEPT !.frag = @ + 1],
           ret |-> TRUE]

(***************************************************************************)
(* PullableReader                                                          *)
(***************************************************************************)
\* Mutant: the scratch is left without advancing limit_pos over the rest of
\* the underlying buffer.
SyncScratch_KeepsLimitPos(r) ==
  LET r1 == [r EXCEPT !.sbuf = <<>>]
  IN set_buffer(r1, r.ostart, r.ostl, r.ostc)

\* Mutant: the underlying buffer is restored with its cursor at its start.
SyncScratch_CursorAtStart(r) ==
  LET r1 == [r EXCEPT !.sbuf = <<>>]
      r2 == set_buffer(r1, r.ostart, r.ostl, 0)
  IN move_limit_pos(r2, available(r2))

SyncScratch(r) ==
  LET r1 == [r EXCEPT !.sbuf = <<>>]
      r2 == set_buffer(r1, r.ostart, r.ostl, r.ostc)
  IN move_limit_pos(r2, available(r2))

\* Mutant: the scratch is ended without testing that the underlying buffer
\* holds the unread bytes.
ScratchEnds_Unguarded(r) ==
  LET available_length == available(r)
      r1 == move_limit_pos(set_buffer([r EXCEPT !.sbuf = <<>>],
                                      r.ostart, r.ostl, r.ostc),
                           r.ostl - r.ostc)
  IN [r |-> set_cursor(r1, r1.cursor - available_length), ret |-> TRUE]

\* Mutant: the cursor is not moved back over the bytes unread in scratch.
ScratchEnds_KeepsCursor(r) ==
  IF r.ostc >= available(r)
    THEN [r |-> SyncScratch(r), ret |-> TRUE]
    ELSE [r |-> r, ret |-> FALSE]

ScratchEnds(r) ==
  LET available_length == available(r)
  IN IF r.ostc >= available_length
       THEN LET r1 == SyncScratch(r)
            IN [r |-> set_cursor(r1, r1.cursor - available_length), ret |-> TRUE]
       ELSE [r |-> r, ret |-> FALSE]

\* ChainBlock::AppendBuffer: a span of at least min_length and at most
\* max_length bytes; how much more than min_length is the allocator's choice
\* (slack; the largest slack stands for "all that max_length allows").
AppendBuffer(min_length, recommended_length, max_length, slack) ==
  IF slack >= MaxSlack THEN max_length
  ELSE UnsignedMin(min_length + slack, max_length)

\* The do-while loop of PullSlow.  nb is new_scratch->buffer up to dest,
\* copied is dest - flat_buffer.data().
RECURSIVE PullLoop(_, _, _, _, _)
PullLoop(r, nb, copied, minl, maxl) ==
  LET length == UnsignedMin(available(r), maxl - copied)
      r1 == IF length > 0 THEN move_cursor(r, length) ELSE r
      nb1 == IF length > 0 THEN nb \o Bytes(r, r.cursor, length) ELSE nb
      c1 == copied + length
  IN IF length > 0 /\ c1 >= minl
       THEN [r |-> r1, nb |-> nb1, copied |-> c1]
       ELSE \* `continue` in a do-while jumps to the loop condition, so both
            \* outcomes of the available() test reach PullBehindScratch.
            LET r2 == IF scratch_used(r1) THEN SyncScratch(r1) ELSE r1
                p == PullBehindScratch(r2)
            IN IF p.ret THEN PullLoop(p.r, nb1, c1, minl, maxl)
                        ELSE [r |-> p.r, nb |-> nb1, copied |-> c1]

\* Mutant: limit_pos is not set to the position of the end of the scratch.
PullSlowScratch_NoSetLimitPos(r, min_length, recommended_length0, slack) ==
  LET recommended_length1 == UnsignedMax(min_length, recommended_length0)
      max_length1 == SaturatingAdd(recommended_length1, recommended_length1)
      keep == r.sp /\ r.sbuf # <<>>
      nbuf == IF keep THEN SubSeq(r.sbuf, start_to_cursor(r) + 1, Len(r.sbuf))
                      ELSE <<>>
      remaining_min_length == min_length - Len(nbuf)
      max_length == max_length1 - Len(nbuf)
      ra == IF keep
              THEN LET x == set_buffer(r, r.ostart, r.ostl, r.ostc)
                   IN move_limit_pos(x, available(x))
              ELSE r
      rb == [ra EXCEPT !.sp = FALSE, !.sbuf = <<>>]
      flat == IF slack >= MaxSlack THEN max_length
              ELSE UnsignedMin(remaining_min_length + slack, max_length)
      l == PullLoop(rb, nbuf, 0, remaining_min_length, flat)
      re == [l.r EXCEPT !.ostart = l.r.start, !.ostl = start_to_limit(l.r),
                        !.ostc = start_to_cursor(l.r),
                        !.sp = TRUE, !.sbuf = l.nb]
      rf == set_buffer(re, ScratchData, Len(l.nb), 0)
  IN [r |-> rf, ret |-> available(rf) >= min_length]

\* Mutant: the part of the old scratch which was already read is not removed
\* before the new bytes are appended.
PullSlowScratch_KeepsReadPrefix(r, min_length, recommended_length0, slack) ==
  LET recommended_length1 == UnsignedMax(min_length, recommended_length0)
      max_length1 == SaturatingAdd(recommended_length1, recommended_length1)
      keep == r.sp /\ r.sbuf # <<>>
      nbuf == IF keep THEN r.sbuf ELSE <<>>
      unread == IF keep THEN Len(r.sbuf) - start_to_cursor(r) ELSE 0
      remaining_min_length == min_length - unread
      recommended_length == recommended_length1 - unread
      max_length == max_length1 - unread
      ra == IF keep
              THEN LET x == set_buffer(r, r.ostart, r.ostl, r.ostc)
                   IN move_limit_pos(x, available(x))
              ELSE r
      rb == [ra EXCEPT !.sp = FALSE, !.sbuf = <<>>]
      flat == AppendBuffer(remaining_min_length, recommended_length,
                           max_length, slack)
      l == PullLoop(rb, nbuf, 0, remaining_min_length, flat)
      rc == set_limit_pos(l.r, pos(l.r))
      re == [rc EXCEPT !.ostart = rc.start, !.ostl = start_to_limit(rc),
                       !.ostc = start_to_cursor(rc),
                       !.sp = TRUE, !.sbuf = l.nb]
      rf == set_buffer(re, ScratchData, Len(l.nb), 0)
  IN [r |-> rf, ret |-> available(rf) >= min_length]

\* PullSlow, the part after the early returns (min_length > 1).
PullSlowScratch(r, min_length, recommended_length0, slack) ==
  LET recommended_length1 == UnsignedMax(min_length, recommended_length0)
      max_length1 == SaturatingAdd(recommended_length1, recommended_length1)
      keep == r.sp /\ r.sbuf # <<>>
      \* new_scratch->buffer after RemovePrefix(start_to_cursor())
      nbuf == IF keep THEN SubSeq(r.sbuf, start_to_cursor(r) + 1, Len(r.sbuf))
                      ELSE <<>>
      remaining_min_length == min_length - Len(nbuf)
      recommended_length == recommended_length1 - Len(nbuf)
      max_length == max_length1 - Len(nbuf)
      ra == IF keep
              THEN LET x == set_buffer(r, r.ostart, r.ostl, r.ostc)
                   IN move_limit_pos(x, available(x))
              ELSE r
      \* scratch_ was moved into new_scratch: it is null during the loop
      rb == [ra EXCEPT !.sp = FALSE, !.sbuf = <<>>]
      flat == AppendBuffer(remaining_min_length, recommended_length,
                           max_length, slack)
      l == PullLoop(rb, nbuf, 0, remaining_min_length, flat)
      rc == set_limit_pos(l.r, pos(l.r))
      re == [rc EXCEPT !.ostart = rc.start, !.ostl = start_to_limit(rc),
                       !.ostc = start_to_cursor(rc),
                       !.sp = TRUE, !.sbuf = l.nb]
      rf == set_buffer(re, ScratchData, Len(l.nb), 0)
  IN [r |-> rf, ret |-> available(rf) >= min_length]

\* Mutant: after the first PullBehindScratch the length of the fragment is
\* not compared with min_length.
PullSlow_TakesFirstFragment(r, min_length, recommended_length, slack) ==
  IF min_length > 1
    THEN LET e == IF scratch_used(r) THEN ScratchEnds(r)
                                     ELSE [r |-> r, ret |-> FALSE]
         IN IF e.ret /\ available(e.r) >= min_length
              THEN [r |-> e.r, ret |-> TRUE]
            ELSE IF available(e.r) = 0
              THEN PullBehindScratch(e.r)
            ELSE PullSlowScratch(e.r, min_length, recommended_length, slack)
    ELSE LET r1 == IF scratch_used(r) THEN SyncScratch(r) ELSE r
         IN IF scratch_used(r) /\ available(r1) > 0
              THEN [r |-> r1, ret |-> TRUE]
              ELSE PullBehindScratch(r1)

\* Mutant: with min_length <= 1 the next fragment is asked for although the
\* underlying buffer still has unread bytes behind the scratch.
PullSlow_DropsRest(r, min_length, recommended_length, slack) ==
  IF min_length > 1
    THEN LET e == IF scratch_used(r) THEN ScratchEnds(r)
                                     ELSE [r |-> r, ret |-> FALSE]
         IN IF e.ret /\ available(e.r) >= min_length
              THEN [r |-> e.r, ret |-> TRUE]
            ELSE IF available(e.r) = 0
              THEN LET p == PullBehindScratch(e.r)
                   IN IF ~p.ret THEN [r |-> p.r, ret |-> FALSE]
                      ELSE IF available(p.r) >= min_length
                        THEN [r |-> p.r, ret |-> TRUE]
                      ELSE PullSlowScratch(p.r, min_length,
                                           recommended_length, slack)
            ELSE PullSlowScratch(e.r, min_length, recommended_length, slack)
    ELSE LET r1 == IF scratch_used(r) THEN SyncScratch(r) ELSE r
         IN PullBehindScratch(move_cursor(r1, available(r1)))

PullSlow(r, min_length, recommended_length, slack) ==
  IF min_length > 1
    THEN LET e == IF scratch_used(r) THEN ScratchEnds(r)
                                     ELSE [r |-> r, ret |-> FALSE]
         IN IF e.ret /\ available(e.r) >= min_length
              THEN [r |-> e.r, ret |-> TRUE]
            ELSE IF available(e.r) = 0
              THEN LET p == PullBehindScratch(e.r)
                   IN IF ~p.ret THEN [r |-> p.r, ret |-> FALSE]
                      ELSE IF available(p.r) >= min_length
                        THEN [r |-> p.r, ret |-> TRUE]
                      ELSE PullSlowScratch(p.r, min_length,
                                           recommended_length, slack)
            ELSE PullSlowScratch(e.r, min_length, recommended_length, slack)
    ELSE LET r1 == IF scratch_used(r) THEN SyncScratch(r) ELSE r
         IN IF scratch_used(r) /\ available(r1) > 0
              THEN [r |-> r1, ret |-> TRUE]
              ELSE PullBehindScratch(r1)

\* Reader::Pull: the inline fast path in front of PullSlow.
Pull(r, min_length, recommended_length, slack) ==
  IF available(r) >= min_length THEN [r |-> r, ret |-> TRUE]
  ELSE PullSlow(r, min_length, recommended_length, slack)

\* Reader::Seek, the inline fast path: a position inside the current buffer.
InBuffer(r, new_pos) == new_pos >= start_pos(r) /\ new_pos <= r.limit_pos
SeekInBuffer(r, new_pos) == set_cursor(r, r.limit - (r.limit_pos - new_pos))

\* ---- Read(size_t, char*) ----
\* Mutant: the bytes copied out of the buffer are not consumed before the
\* next fragment is asked for.
RECURSIVE ReadBehindScratchLoop_NoMoveCursor(_, _, _)
ReadBehindScratchLoop_NoMoveCursor(r, length, got) ==
  LET available_length == available(r)
      got1 == IF available_length > 0 THEN got \o View(r) ELSE got
      length1 == IF available_length > 0 THEN length - available_length ELSE length
      p == PullBehindScratch(r)
  IN IF ~p.ret THEN [r |-> p.r, ret |-> FALSE, got |-> got1]
     ELSE IF length1 > available(p.r)
       THEN ReadBehindScratchLoop_NoMoveCursor(p.r, length1, got1)
     ELSE [r |-> move_cursor(p.r, length1), ret |-> TRUE,
           got |-> got1 \o Bytes(p.r, p.r.cursor, length1)]

RECURSIVE ReadBehindScratchLoop(_, _, _)
ReadBehindScratchLoop(r, length, got) ==
  LET available_length == available(r)
      r1 == IF available_length > 0 THEN move_cursor(r, available_length) ELSE r
      got1 == IF available_length > 0 THEN got \o View(r) ELSE got
      length1 == IF available_length > 0 THEN length - available_length ELSE length
      p == PullBehindScratch(r1)
  IN IF ~p.ret THEN [r |-> p.r, ret |-> FALSE, got |-> got1]
     ELSE IF length1 > available(p.r)
       THEN ReadBehindScratchLoop(p.r, length1, got1)
     ELSE [r |-> move_cursor(p.r, length1), ret |-> TRUE,
           got |-> got1 \o Bytes(p.r, p.r.cursor, length1)]

ReadBehindScratch(r, length) ==
  ReadBehindScratchLoop(BehindScratchHook(r), length, <<>>)

\* Mutant: dest is not advanced past the bytes taken from scratch, so what
\* is read behind the scratch overwrites them.
ReadSlow_DestNotAdvanced(r, length) ==
  IF scratch_used(r)
    THEN LET e == ScratchEnds(r)
             length_to_read == available(r)
             r1 == IF e.ret THEN e.r
                   ELSE SyncScratch(move_cursor(r, length_to_read))
             length1 == IF e.ret THEN length ELSE length - length_to_read
         IN IF available(r1) >= length1
              THEN [r |-> IF length1 > 0 THEN move_cursor(r1, length1) ELSE r1,
                    ret |-> TRUE, got |-> Bytes(r1, r1.cursor, length1)]
              ELSE ReadBehindScratchLoop(r1, length1, <<>>)
    ELSE ReadBehindScratchLoop(r, length, <<>>)

ReadSlow(r, length) ==
  IF scratch_used(r)
    THEN LET e == ScratchEnds(r)
             length_to_read == available(r)
             r1 == IF e.ret THEN e.r
                   ELSE SyncScratch(move_cursor(r, length_to_read))
             got1 == IF e.ret THEN <<>> ELSE View(r)
             length1 == IF e.ret THEN length ELSE length - length_to_read
         IN IF available(r1) >= length1
              THEN [r |-> IF length1 > 0 THEN move_cursor(r1, length1) ELSE r1,
                    ret |-> TRUE,
                    got |-> got1 \o Bytes(r1, r1.cursor, length1)]
              ELSE LET b == ReadBehindScratch(r1, length1)
                   IN [r |-> b.r, ret |-> b.ret, got |-> got1 \o b.got]
    ELSE ReadBehindScratch(r, length)

\* Reader::Read(size_t, char*): the inline fast path in front of ReadSlow.
Read(r, length) ==
  IF available(r) >= length
    THEN [r |-> move_cursor(r, length), ret |-> TRUE,
          got |-> Bytes(r, r.cursor, length)]
    ELSE ReadSlow(r, length)

\* ---- Read(size_t, Chain&), Read(size_t, Cord&) ----
Prefix(s, n) == [i \in 1..n |-> IF i <= Len(s) THEN s[i] ELSE Uninit]

\* The size of the piece the destination offers to one Read(char*):
\* Chain::AppendBuffer(1, length, length), or a Buffer of kMaxBufferSize.
Piece(kind, length, slack) ==
  IF kind = "chain" THEN AppendBuffer(1, length, length, slack)
  ELSE UnsignedMin(length, UnsignedMin(length, kMaxBufferSize) + slack)

RECURSIVE ReadBehindScratchInto(_, _, _, _, _)
\* One round of the loop, c being the outcome of its Read(size, buffer).
ReadBehindScratchIntoRound(c, pos_before, size, length, got, kind, slack) ==
  IF ~c.ret
    THEN LET length_read == pos(c.r) - pos_before
         IN [r |-> c.r, ret |-> FALSE, got |-> got \o Prefix(c.got, length_read)]
  ELSE IF length - size > 0
    THEN ReadBehindScratchInto(c.r, length - size, got \o c.got, kind, slack)
  ELSE [r |-> c.r, ret |-> TRUE, got |-> got \o c.got]

ReadBehindScratchInto(r, length, got, kind, slack) ==
  ReadBehindScratchIntoRound(Read(BehindScratchHook(r),
                                  Piece(kind, length, slack)), pos(r),
                             Piece(kind, length, slack), length, got, kind,
                             slack)

ReadBehindScratchChain(r, length, slack) ==
  ReadBehindScratchInto(r, length, <<>>, "chain", slack)

ReadBehindScratchCord(r, length, slack) ==
  ReadBehindScratchInto(r, length, <<>>, "cord", slack)

\* The outcome b of the rest of a call that has already delivered got1.
After(got1, b) == [r |-> b.r, ret |-> b.ret, got |-> got1 \o b.got]

\* ReadSlow(size_t, Chain&) and ReadSlow(size_t, Cord&) have the same text up
\* to the ReadBehindScratch overload they end in.
ReadSlowInto(r, length, kind, slack) ==
  LET e == IF scratch_used(r) THEN ScratchEnds(r) ELSE [r |-> r, ret |-> TRUE]
      length_to_read == UnsignedMin(length, available(r))
      got1 == IF e.ret THEN <<>> ELSE Bytes(r, r.cursor, length_to_read)
      length1 == IF e.ret THEN length ELSE length - length_to_read
      r1 == IF e.ret THEN e.r ELSE move_cursor(r, length_to_read)
  IN IF ~e.ret /\ length1 = 0 THEN [r |-> r1, ret |-> TRUE, got |-> got1]
     ELSE LET r2 == IF e.ret THEN r1 ELSE SyncScratch(r1)
          IN IF scratch_used(r) /\ available(r2) >= length1
                /\ length1 <= kMaxBytesToCopy
               THEN [r |-> move_cursor(r2, length1), ret |-> TRUE,
                     got |-> got1 \o Bytes(r2, r2.cursor, length1)]
               ELSE After(got1,
                          ReadBehindScratchInto(r2, length1, <<>>, kind, slack))

ReadSlowChain(r, length, slack) == ReadSlowInto(r, length, "chain", slack)
ReadSlowCord(r, length, slack) == ReadSlowInto(r, length, "cord", slack)

\* Reader::Read(size_t, Chain&) / (size_t, Cord&): the inline fast path.
ReadInto(r, length, kind, slack) ==
  IF available(r) >= length /\ length <= kMaxBytesToCopy
    THEN [r |-> move_cursor(r, length), ret |-> TRUE,
          got |-> Bytes(r, r.cursor, length)]
    ELSE ReadSlowInto(r, length, kind, slack)

\* ---- Copy(Position, Writer&), Copy(size_t, BackwardWriter&) ----
\* The destination either takes every Write or fails every non-empty one.
DestWrite(d, destOk) == destOk \/ d = <<>>

RECURSIVE CopyBehindScratchWriter(_, _, _, _)
CopyBehindScratchWriter(r0, length, got, destOk) ==
  LET r == BehindScratchHook(r0) IN
  IF length > available(r)
    THEN LET d == View(r)
             r1 == move_cursor(r, Len(d))
         IN IF ~DestWrite(d, destOk) THEN [r |-> r1, ret |-> FALSE, got |-> got]
            ELSE LET p == PullBehindScratch(r1)
                 IN IF ~p.ret THEN [r |-> p.r, ret |-> FALSE, got |-> got \o d]
                    ELSE CopyBehindScratchWriter(p.r, length - Len(d),
                                                 got \o d, destOk)
    ELSE LET d == Bytes(r, r.cursor, length)
         IN [r |-> move_cursor(r, length), ret |-> DestWrite(d, destOk),
             got |-> IF DestWrite(d, destOk) THEN got \o d ELSE got]

CopySlowWriter(r, length, destOk) ==
  LET e == IF scratch_used(r) THEN ScratchEnds(r) ELSE [r |-> r, ret |-> TRUE]
      length_to_copy == UnsignedMin(length, available(r))
      d1 == IF e.ret THEN <<>> ELSE Bytes(r, r.cursor, length_to_copy)
      ok1 == DestWrite(d1, destOk)
      length1 == IF e.ret THEN length ELSE length - length_to_copy
      r1 == IF e.ret THEN e.r ELSE move_cursor(r, length_to_copy)
  IN IF ~e.ret /\ ~ok1 THEN [r |-> r1, ret |-> FALSE, got |-> <<>>]
     ELSE IF ~e.ret /\ length1 = 0 THEN [r |-> r1, ret |-> TRUE, got |-> d1]
     ELSE LET r2 == IF e.ret THEN r1 ELSE SyncScratch(r1)
          IN IF scratch_used(r) /\ available(r2) >= length1
                /\ length1 <= kMaxBytesToCopy
               THEN LET d == Bytes(r2, r2.cursor, length1)
                    IN [r |-> move_cursor(r2, length1),
                        ret |-> DestWrite(d, destOk),
                        got |-> IF DestWrite(d, destOk) THEN d1 \o d ELSE d1]
               ELSE CopyBehindScratchWriter(r2, length1, d1, destOk)

CopyWriter(r, length, destOk) ==
  IF available(r) >= length /\ length <= kMaxBytesToCopy
    THEN LET d == Bytes(r, r.cursor, length)
         IN [r |-> move_cursor(r, length), ret |-> DestWrite(d, destOk),
             got |-> IF DestWrite(d, destOk) THEN d ELSE <<>>]
    ELSE CopySlowWriter(r, length, destOk)

\* dest.Write(std::move(from_scratch)) after the copy c of what follows it.
WriteFromScratch(c, from_scratch, destOk) ==
  IF ~c.ret THEN c
  ELSE [r |-> c.r, ret |-> DestWrite(from_scratch, destOk),
        got |-> IF DestWrite(from_scratch, destOk)
                  THEN from_scratch \o c.got ELSE c.got]

\* A read b straight into the space pushed in dest: what a failed read left
\* there is cut off again.
ReadIntoPushed(b) ==
  [r |-> b.r, ret |-> b.ret, got |-> IF b.ret THEN b.got ELSE <<>>]

\* A read b into a Chain that is then written to dest.
WriteChainRead(b, destOk) ==
  IF ~b.ret THEN [r |-> b.r, ret |-> FALSE, got |-> <<>>]
  ELSE [r |-> b.r, ret |-> DestWrite(b.got, destOk),
        got |-> IF DestWrite(b.got, destOk) THEN b.got ELSE <<>>]

\* got is what the BackwardWriter holds in front of its old contents.
CopyBehindScratchBackward(r0, length, destOk, slack) ==
  LET r == BehindScratchHook(r0) IN
  IF length <= available(r)
    THEN LET d == Bytes(r, r.cursor, length)
         IN [r |-> move_cursor(r, length), ret |-> DestWrite(d, destOk),
             got |-> IF DestWrite(d, destOk) THEN d ELSE <<>>]
  ELSE IF length <= kMaxBytesToCopy
    THEN IF ~destOk THEN [r |-> r, ret |-> FALSE, got |-> <<>>]
         ELSE ReadIntoPushed(ReadBehindScratch(r, length))
  ELSE WriteChainRead(ReadBehindScratchChain(r, length, slack), destOk)

\* The tail of CopySlow(BackwardWriter&) with scratch: the bytes behind the
\* scratch are copied first, then from_scratch is written in front of them.
CopySlowBackwardRest(r1, length1, from_scratch, destOk, slack) ==
  WriteFromScratch(
    IF available(r1) >= length1 /\ length1 <= kMaxBytesToCopy
      THEN LET d == Bytes(r1, r1.cursor, length1)
           IN [r |-> move_cursor(r1, length1), ret |-> DestWrite(d, destOk),
               got |-> IF DestWrite(d, destOk) THEN d ELSE <<>>]
      ELSE CopyBehindScratchBackward(r1, length1, destOk, slack),
    from_scratch, destOk)

CopySlowBackward(r, length, destOk, slack) ==
  IF scratch_used(r)
    THEN LET e == ScratchEnds(r)
         IN IF ~e.ret /\ available(r) >= length
              THEN LET d == Bytes(r, r.cursor, length)
                   IN [r |-> move_cursor(r, length),
                       ret |-> DestWrite(d, destOk),
                       got |-> IF DestWrite(d, destOk) THEN d ELSE <<>>]
              ELSE CopySlowBackwardRest(
                     IF e.ret THEN e.r ELSE SyncScratch(r),
                     IF e.ret THEN length ELSE length - available(r),
                     IF e.ret THEN <<>> ELSE View(r),
                     destOk, slack)
    ELSE CopyBehindScratchBackward(r, length, destOk, slack)

CopyBackward(r, length, destOk, slack) ==
  IF available(r) >= length /\ length <= kMaxBytesToCopy
    THEN LET d == Bytes(r, r.cursor, length)
         IN [r |-> move_cursor(r, length), ret |-> DestWrite(d, destOk),
             got |-> IF DestWrite(d, destOk) THEN d ELSE <<>>]
    ELSE CopySlowBackward(r, length, destOk, slack)

\* ---- Seek ----
\* The leaf's SeekBehindScratch when it supports random access: the buffer
\* becomes the fragment that holds new_pos.
FragOf(r, p) ==
  CHOOSE k \in 1..Len(r.cuts) : SumTo(r.cuts, k - 1) <= p /\ p < SumTo(r.cuts, k)

LeafSeekBehindScratch(r, new_pos) ==
  IF ~r.ok THEN [r |-> r, ret |-> FALSE]
  ELSE IF new_pos >= Len(data)
    THEN LET k == Len(r.cuts)
             r1 == IF k = 0 THEN set_buffer(r, NullPtr, 0, 0)
                   ELSE set_buffer(r, SrcAddr(SumTo(r.cuts, k - 1)),
                                   r.cuts[k], r.cuts[k])
         IN [r |-> [set_limit_pos(r1, Len(data)) EXCEPT !.frag = k],
             ret |-> new_pos = Len(data)]
  ELSE LET k == FragOf(r, new_pos)
           b == SumTo(r.cuts, k - 1)
           r1 == set_buffer(r, SrcAddr(b), r.cuts[k], new_pos - b)
       IN [r |-> [set_limit_pos(r1, b + r.cuts[k]) EXCEPT !.frag = k],
           ret |-> TRUE]

RECURSIVE SeekForwards(_, _)
SeekForwards(r, new_pos) ==
  LET p == PullBehindScratch(move_cursor(r, available(r)))
  IN IF ~p.ret THEN [r |-> p.r, ret |-> FALSE]
     ELSE IF new_pos > p.r.limit_pos THEN SeekForwards(p.r, new_pos)
     ELSE LET available_length == p.r.limit_pos - new_pos
          IN [r |-> set_cursor(p.r, p.r.limit - available_length),
              ret |-> TRUE]

\* Mutant: a position behind the buffer is sought like one ahead of it.
BaseSeekBehindScratch_OnlyForwards(r, new_pos) == SeekForwards(r, new_pos)

\* PullableReader::SeekBehindScratch, the default.
BaseSeekBehindScratch(r, new_pos) ==
  IF new_pos <= r.limit_pos
    THEN [r |-> FailWith(r, "unimplemented"), ret |-> FALSE]
    ELSE SeekForwards(r, new_pos)

SeekBehindScratch(r, new_pos) ==
  IF r.ra THEN LeafSeekBehindScratch(BehindScratchHook(r), new_pos)
          ELSE BaseSeekBehindScratch(BehindScratchHook(r), new_pos)

\* Mutant: the scratch is not left before the seek goes behind it.
SeekSlow_KeepsScratch(r, new_pos) == SeekBehindScratch(r, new_pos)

SeekSlow(r, new_pos) ==
  LET r1 == IF scratch_used(r) THEN SyncScratch(r) ELSE r
  IN IF scratch_used(r) /\ InBuffer(r1, new_pos)
       THEN [r |-> SeekInBuffer(r1, new_pos), ret |-> TRUE]
       ELSE SeekBehindScratch(r1, new_pos)

Seek(r, new_pos) ==
  IF InBuffer(r, new_pos)
    THEN [r |-> SeekInBuffer(r, new_pos), ret |-> TRUE]
    ELSE SeekSlow(r, new_pos)

\* ---- Sync, Done ----
SupportsRandomAccess(r) == r.ra
healthy(r) == r.ok

SyncBehindScratch(r) == [r |-> BehindScratchHook(r), ret |-> healthy(r)]

SyncImpl(r) ==
  IF scratch_used(r)
    THEN LET e == ScratchEnds(r)
         IN IF e.ret THEN SyncBehindScratch(e.r)
            ELSE IF ~SupportsRandomAccess(r) THEN [r |-> r, ret |-> healthy(r)]
            ELSE LET new_pos == pos(r)
                 IN SyncBehindScratch(Seek(SyncScratch(r), new_pos).r)
    ELSE SyncBehindScratch(r)

\* Reader::Done: the position is kept, the buffer is dropped.
ReaderDone(r) ==
  [set_buffer(set_limit_pos(r, pos(r)), NullPtr, 0, 0) EXCEPT !.closed = TRUE]

ScratchReset(r) ==
  [r EXCEPT !.sp = FALSE, !.sbuf = <<>>, !.ostart = NullPtr, !.ostl = 0,
            !.ostc = 0]

\* The leaf's DoneBehindScratch; done_at keeps the position it was called at.
NotCalled == 0 - 1
DoneBehindScratch(r) == [SyncBehindScratch(r).r EXCEPT !.done_at = pos(r)]

Done_SkipsSeek(r) ==
  IF scratch_used(r)
    THEN LET e == ScratchEnds(r)
         IN IF e.ret THEN ScratchReset(ReaderDone(DoneBehindScratch(e.r)))
            ELSE IF ~SupportsRandomAccess(r) THEN ScratchReset(ReaderDone(r))
            ELSE ScratchReset(ReaderDone(DoneBehindScratch(SyncScratch(r))))
    ELSE ScratchReset(ReaderDone(DoneBehindScratch(r)))

Done(r) ==
  IF scratch_used(r)
    THEN LET e == ScratchEnds(r)
         IN IF e.ret THEN ScratchReset(ReaderDone(DoneBehindScratch(e.r)))
            ELSE IF ~SupportsRandomAccess(r) THEN ScratchReset(ReaderDone(r))
            ELSE LET new_pos == pos(r)
                     r1 == Seek(SyncScratch(r), new_pos).r
                 IN ScratchReset(ReaderDone(DoneBehindScratch(r1)))
    ELSE ScratchReset(ReaderDone(DoneBehindScratch(r)))

\* ---- ReadHint ----
BehindScratchEnter(r) ==
  LET r1 == set_buffer([r EXCEPT !.sp = FALSE], r.ostart, r.ostl, r.ostc)
  IN [r |-> move_limit_pos(r1, available(r1)),
      read_from_scratch |-> start_to_cursor(r)]

\* Mutant: the buffer pointers are left on the underlying buffer.
BehindScratchLeave_NoSetBuffer(r, read_from_scratch) ==
  LET r1 == set_limit_pos(r, pos(r))
  IN [r1 EXCEPT !.ostart = r1.start, !.ostl = start_to_limit(r1),
                !.ostc = start_to_cursor(r1), !.sp = TRUE]

BehindScratchLeave(r, read_from_scratch) ==
  LET r1 == set_limit_pos(r, pos(r))
      r2 == [r1 EXCEPT !.ostart = r1.start, !.ostl = start_to_limit(r1),
                       !.ostc = start_to_cursor(r1), !.sp = TRUE]
  IN set_buffer(r2, ScratchData, Len(r2.sbuf), read_from_scratch)

ReadHintBehindScratch(r, length) == BehindScratchHook(r)

ReadHintSlow(r, length) ==
  IF scratch_used(r)
    THEN LET e == ScratchEnds(r)
         IN IF ~e.ret
              THEN LET length1 == length - available(r)
                       b == BehindScratchEnter(r)
                       r1 == IF available(b.r) < length1
                               THEN ReadHintBehindScratch(b.r, length1)
                               ELSE b.r
                   IN BehindScratchLeave(r1, b.read_from_scratch)
            ELSE IF available(e.r) >= length THEN e.r
            ELSE ReadHintBehindScratch(e.r, length)
    ELSE ReadHintBehindScratch(r, length)

ReadHint(r, length) == IF available(r) >= length THEN r ELSE ReadHintSlow(r, length)

(***************************************************************************)
(* Writer base: buffer pointers (writer.h; stated in the specification).   *)
(* The buffer_ of a BufferedWriter lives at BufferData; buf holds the      *)
(* bytes between start and cursor.                                         *)
(***************************************************************************)
BufferData == 1
wpos(x) == x.start_pos + start_to_cursor(x)
wlimit_pos(x) == x.start_pos + start_to_limit(x)
wset_buffer(x, s, stl) ==
  [x EXCEPT !.start = s, !.cursor = s, !.limit = s + stl, !.buf = <<>>]

\* Object::Fail as overridden by Writer: terminal status, empty buffer.
WFail(x, code) ==
  IF x.ok THEN [wset_buffer(x, NullPtr, 0) EXCEPT !.ok = FALSE, !.status = code]
  ELSE x
FailOverflow(x) == WFail(x, "resource-exhausted")

\* The leaf's WriteInternal: src goes to the sink at start_pos(), which moves
\* on by its length; the call numbered failAt fails, and so does a call that
\* would take the sink past the largest offset it has, max_offset.
WriteInternal(x, src) ==
  LET x1 == [x EXCEPT !.calls = @ + 1]
  IN IF x.failAt = x.calls + 1 THEN [w |-> WFail(x1, "unknown"), ret |-> FALSE]
     ELSE IF Len(src) > x.max_offset - x.start_pos
       THEN [w |-> FailOverflow(x1), ret |-> FALSE]
     ELSE [w |-> [x1 EXCEPT !.sink = @ \o src, !.start_pos = @ + Len(src)],
           ret |-> TRUE]

\* BufferLength: the buffer size, no more than what size_hint leaves.
BufferLength(min_length, buffer_size, size_hint, p) ==
  UnsignedMax(min_length,
              IF p < size_hint THEN UnsignedMin(buffer_size, size_hint - p)
                               ELSE buffer_size)

(***************************************************************************)
(* BufferedWriter                                                          *)
(***************************************************************************)
SyncBuffer_KeepsBuffer(x) ==
  IF x.buf = <<>> THEN [w |-> wset_buffer(x, NullPtr, 0), ret |-> TRUE]
  ELSE IF ~x.ok THEN [w |-> x, ret |-> FALSE]
  ELSE WriteInternal(x, x.buf)

SyncBuffer(x) ==
  LET d == x.buf
      x1 == wset_buffer(x, NullPtr, 0)
  IN IF d = <<>> THEN [w |-> x1, ret |-> TRUE]
     ELSE IF ~x1.ok THEN [w |-> x1, ret |-> FALSE]
     ELSE WriteInternal(x1, d)

LengthToWriteDirectly_IgnoresHint(x) == x.buffer_size

LengthToWriteDirectly(x) ==
  IF wpos(x) < x.size_hint
     /\ (start_to_cursor(x) = 0 \/ wlimit_pos(x) < x.size_hint)
    THEN UnsignedMin(x.buffer_size, x.size_hint - wpos(x))
    ELSE x.buffer_size

PushSlow_NoOverflowCheck(x, min_length, recommended_length, slack) ==
  LET s == SyncBuffer(x)
  IN IF ~s.ret THEN s
     ELSE IF ~s.w.ok THEN [w |-> s.w, ret |-> FALSE]
     ELSE LET buffer_length == BufferLength(min_length, s.w.buffer_size,
                                            s.w.size_hint, s.w.start_pos)
          IN [w |-> wset_buffer(s.w, BufferData,
                      UnsignedMin(UnsignedMin(buffer_length + slack,
                                    SaturatingAdd(buffer_length, buffer_length)),
                                  MaxPosition - s.w.start_pos)),
              ret |-> TRUE]

PushSlow_IgnoresFailure(x, min_length, recommended_length, slack) ==
  LET s == SyncBuffer(x)
  IN IF ~s.ret THEN s
     ELSE [w |-> wset_buffer(s.w, BufferData, s.w.buffer_size + slack),
           ret |-> TRUE]

PushSlow(x, min_length, recommended_length, slack) ==
  LET s == SyncBuffer(x)
  IN IF ~s.ret THEN s
     ELSE IF ~s.w.ok THEN [w |-> s.w, ret |-> FALSE]
     ELSE IF min_length > MaxPosition - s.w.start_pos
       THEN [w |-> FailOverflow(s.w), ret |-> FALSE]
     ELSE LET buffer_length == BufferLength(min_length, s.w.buffer_size,
                                            s.w.size_hint, s.w.start_pos)
              capacity == buffer_length + slack
          IN [w |-> wset_buffer(s.w, BufferData,
                      UnsignedMin(UnsignedMin(capacity,
                                    SaturatingAdd(buffer_length, buffer_length)),
                                  MaxPosition - s.w.start_pos)),
              ret |-> TRUE]

FlushBehindBuffer(x, src) ==
  IF ~x.ok THEN [w |-> x, ret |-> FALSE]
  ELSE IF src = <<>> THEN [w |-> x, ret |-> TRUE]
  ELSE WriteInternal(x, src)

DoneBehindBuffer(x, src) == FlushBehindBuffer(x, src).w

SeekBehindBuffer(x, new_pos) == [w |-> WFail(x, "unimplemented"), ret |-> FALSE]
\* An optional<Position> is the set of its values: {} is nullopt.
SizeBehindBuffer(x) == [w |-> WFail(x, "unimplemented"), ret |-> {}]
TruncateBehindBuffer(x, new_size) ==
  [w |-> WFail(x, "unimplemented"), ret |-> FALSE]
ReadModeBehindBuffer(x, initial_pos) ==
  [w |-> WFail(x, "unimplemented"), ret |-> NullPtr]

\* Writer::Push: the inline fast path in front of PushSlow.
Push(x, min_length, recommended_length, slack) ==
  IF available(x) >= min_length THEN [w |-> x, ret |-> TRUE]
  ELSE PushSlow(x, min_length, recommended_length, slack)

\* memcpy(cursor(), src, n); move_cursor(n)
CopyIn(x, src) == [x EXCEPT !.buf = @ \o src, !.cursor = @ + Len(src)]

\* Writer::WriteSlow(string_view), the base class: fill the buffer, push,
\* repeat.
RECURSIVE WriterWriteSlow(_, _, _)
WriterWriteSlow(x, src, slack) ==
  LET available_length == available(x)
      x1 == IF available_length > 0
              THEN CopyIn(x, SubSeq(src, 1, available_length)) ELSE x
      src1 == IF available_length > 0
                THEN SubSeq(src, available_length + 1, Len(src)) ELSE src
      p == PushSlow(x1, 1, Len(src1), slack)
  IN IF ~p.ret THEN [w |-> p.w, ret |-> FALSE]
     ELSE IF Len(src1) > available(p.w) THEN WriterWriteSlow(p.w, src1, slack)
     ELSE [w |-> CopyIn(p.w, src1), ret |-> TRUE]

WriteSlow_AlwaysStages(x, src, slack) == WriterWriteSlow(x, src, slack)

WriteSlow(x, src, slack) ==
  IF Len(src) >= LengthToWriteDirectly(x)
    THEN LET s == SyncBuffer(x)
         IN IF ~s.ret THEN s
            ELSE IF ~s.w.ok THEN [w |-> s.w, ret |-> FALSE]
            ELSE WriteInternal(s.w, src)
    ELSE WriterWriteSlow(x, src, slack)

\* Writer::Write(string_view): the inline fast path in front of WriteSlow.
Write(x, src, slack) ==
  IF available(x) >= Len(src) THEN [w |-> CopyIn(x, src), ret |-> TRUE]
  ELSE WriteSlow(x, src, slack)

Zeros(n) == [i \in 1..n |-> "0"]

RECURSIVE WriteZerosSlow(_, _, _)
WriteZerosSlow(x, length, slack) ==
  IF length > kArrayOfZerosSize
    THEN LET c == Write(x, Zeros(kArrayOfZerosSize), slack)
         IN IF ~c.ret THEN c
            ELSE WriteZerosSlow(c.w, length - kArrayOfZerosSize, slack)
    ELSE Write(x, Zeros(length), slack)

\* Writer::WriteZeros: the inline fast path in front of WriteZerosSlow.
WriteZeros(x, length, slack) ==
  IF UnsignedMin(available(x), kMaxBytesToCopy) >= length
    THEN [w |-> CopyIn(x, Zeros(length)), ret |-> TRUE]
    ELSE WriteZerosSlow(x, length, slack)

FlushImpl_DropsBuffer(x) == FlushBehindBuffer(wset_buffer(x, NullPtr, 0), <<>>)

FlushImpl(x) ==
  LET src == x.buf
  IN FlushBehindBuffer(wset_buffer(x, NullPtr, 0), src)

\* Mutant: the buffer is not passed to WriteInternal before the hook.
WSeekSlow_NoSyncBuffer(x, new_pos) == SeekBehindBuffer(x, new_pos)

WSeekSlow(x, new_pos) ==
  LET s == SyncBuffer(x)
  IN IF ~s.ret THEN s ELSE SeekBehindBuffer(s.w, new_pos)

\* Writer::Seek: nothing to do at the current position.
WSeek(x, new_pos) ==
  IF new_pos = wpos(x) THEN [w |-> x, ret |-> TRUE] ELSE WSeekSlow(x, new_pos)

\* `return false` from a function returning optional<Position> yields an
\* optional that holds Position{false}, that is 0.
SizeImpl(x) ==
  LET s == SyncBuffer(x)
  IN IF ~s.ret THEN [w |-> s.w, ret |-> {0}] ELSE SizeBehindBuffer(s.w)

TruncateImpl(x, new_size) ==
  LET s == SyncBuffer(x)
  IN IF ~s.ret THEN s ELSE TruncateBehindBuffer(s.w, new_size)

ReadModeImpl(x, initial_pos) ==
  LET s == SyncBuffer(x)
  IN IF ~s.ret THEN [w |-> s.w, ret |-> NullPtr]
     ELSE ReadModeBehindBuffer(s.w, initial_pos)

\* Writer::Done: the position is kept, the buffer is dropped.
WriterDone(x) ==
  [wset_buffer([x EXCEPT !.start_pos = wpos(x)], NullPtr, 0)
     EXCEPT !.closed = TRUE]

WDone(x) ==
  LET src == x.buf
  IN WriterDone(DoneBehindBuffer(wset_buffer(x, NullPtr, 0), src))

(***************************************************************************)
(* Initial states and the specification of the reader                      *)
(***************************************************************************)
NewWriterUpTo(buffer_size, size_hint, assumed_pos, f, max_offset) ==
  [start |-> NullPtr, cursor |-> NullPtr, limit |-> NullPtr,
   start_pos |-> assumed_pos, ok |-> TRUE, status |-> "ok", closed |-> FALSE,
   buf |-> <<>>, buffer_size |-> buffer_size, size_hint |-> size_hint,
   sink |-> <<>>, failAt |-> f, calls |-> 0, max_offset |-> max_offset]

NewWriter(buffer_size, size_hint, assumed_pos, f) ==
  NewWriterUpTo(buffer_size, size_hint, assumed_pos, f, MaxPosition)

\* A call on the writer as the caller saw it: refused is a false return, an
\* absent optional or a null pointer.
NoWCall == [op |-> "none", n |-> 0, refused |-> FALSE, pos0 |-> 0,
            ok0 |-> TRUE, calls0 |-> 0]

WCalled(x, op, n, refused) ==
  [op |-> op, n |-> n, refused |-> refused, pos0 |-> wpos(x), ok0 |-> x.ok,
   calls0 |-> x.calls]

RECURSIVE Compositions(_)
Compositions(n) ==
  IF n = 0 THEN {<<>>}
  ELSE UNION {{<<k>> \o c : c \in Compositions(n - k)} : k \in 1..n}

\* A leaf over fragments c whose fetch of fragment f fails, with or without
\* random access.
NewReader(c, f, ra) ==
  [cuts |-> c, failAt |-> f, ra |-> ra,
   start |-> NullPtr, cursor |-> NullPtr, limit |-> NullPtr, limit_pos |-> 0,
   ok |-> TRUE, status |-> "ok", closed |-> FALSE,
   sp |-> FALSE, sbuf |-> <<>>, ostart |-> NullPtr, ostl |-> 0, ostc |-> 0,
   frag |-> 0, done_at |-> NotCalled, hook_in_scratch |-> FALSE]

NoCall == [op |-> "none", n |-> 0, ret |-> TRUE, pos0 |-> 0, ok0 |-> TRUE,
           scratch0 |-> FALSE, got |-> <<>>]

\* What is recorded of a public call on reader r.
Called(r, op, n, ret, got) ==
  [op |-> op, n |-> n, ret |-> ret, pos0 |-> pos(r), ok0 |-> r.ok,
   scratch0 |-> scratch_used(r), got |-> got]

\* The leaves over a source of n bytes: every fragmentation; a sequential
\* leaf may fail at any fetch, a random access leaf never fails.
Readers(n) ==
  {NewReader(t[1], t[2], t[3]) :
     t \in {u \in Compositions(n) \X (0..(n + 1)) \X BOOLEAN :
              (u[3] => u[2] = 0) /\ u[2] <= Len(u[1]) + 1}}

\* The stream reader and the cookie of a run that does not use them.
NoStream == [closed |-> TRUE]
NoICall == [op |-> "none"]
NoCookie == [closed |-> TRUE]
NoCCall == [op |-> "none"]

Init ==
  /\ \E n \in 0..MaxLen :
       /\ data = SubSeq(Alphabet, 1, n)
       /\ rd \in Readers(n)
  /\ tw = rd
  /\ out = <<>>
  /\ hist = "readpull"
  /\ last = NoCall
  /\ tlast = NoCall
  /\ step = 0
  /\ w = NewWriter(1, 0, 0, 0)
  /\ written = <<>>
  /\ wlast = NoWCall
  /\ ir = NoStream /\ ilast = NoICall
  /\ ck = NoCookie /\ clast = NoCCall

(***************************************************************************)
(* The public calls, as actions on rd                                      *)
(***************************************************************************)
PullCall(m, rec, slack) ==
  LET c == Pull(rd, m, rec, slack)
  IN /\ ~rd.closed
     /\ rd' = c.r
     /\ last' = Called(rd, "Pull", m, c.ret, <<>>)
     /\ UNCHANGED <<data, out, hist>>

\* The caller consumes n bytes of the view: cursor += n.
AdvanceCall(n) ==
  /\ ~rd.closed
  /\ n <= available(rd)
  /\ rd' = move_cursor(rd, n)
  /\ out' = <<>>
  /\ hist' = "mixed"
  /\ last' = Called(rd, "Advance", n, TRUE, Bytes(rd, rd.cursor, n))
  /\ UNCHANGED data

ReadCall(n) ==
  LET c == Read(rd, n)
  IN /\ ~rd.closed
     /\ rd' = c.r
     /\ out' = IF hist = "readpull" THEN out \o c.got ELSE out
     /\ last' = Called(rd, "Read", n, c.ret, c.got)
     /\ UNCHANGED <<data, hist>>

Call(op, n, c, got) ==
  /\ ~rd.closed
  /\ rd' = c.r
  /\ out' = <<>>
  /\ hist' = "mixed"
  /\ last' = Called(rd, op, n, c.ret, got)
  /\ UNCHANGED data

CallGot(op, n, c) == Call(op, n, c, c.got)

SeekCall(q) == Call("Seek", q, Seek(rd, q), <<>>)

SyncCall == Call("Sync", 0, SyncImpl(rd), <<>>)

ReadHintCall(n) ==
  Call("ReadHint", n, [r |-> ReadHint(rd, n), ret |-> TRUE], <<>>)

ReadIntoCall(n, kind) == CallGot("ReadInto", n, ReadInto(rd, n, kind, 0))

CopyCall(n, destOk, back) ==
  CallGot(IF destOk THEN "Copy" ELSE "CopyDestFails", n,
          IF back THEN CopyBackward(rd, n, destOk, 0)
                  ELSE CopyWriter(rd, n, destOk))

CloseCall == Call("Close", 0, [r |-> Done(rd), ret |-> TRUE], <<>>)

DoPull ==
  \E m \in 1..MaxReq : \E rec \in {m, MaxReq}, slack \in 0..MaxSlack :
    PullCall(m, rec, slack)
DoAdvance == \E n \in 1..MaxReq : AdvanceCall(n)
DoRead == \E n \in 1..MaxReq : ReadCall(n)
DoSeek == \E q \in 0..(MaxLen + 1) : SeekCall(q)
DoSync == SyncCall
DoReadHint == \E n \in 1..MaxReq : ReadHintCall(n)
DoReadInto == \E n \in 1..MaxReq, kind \in {"chain", "cord"} : ReadIntoCall(n, kind)
DoCopy == \E n \in 1..MaxReq, destOk \in BOOLEAN, back \in BOOLEAN :
            CopyCall(n, destOk, back)
DoClose == CloseCall

\* Nothing but rd and its history moves in a run of the reader.
OnlyReader == UNCHANGED <<tw, tlast, step>> /\ UNCHANGED <<wvars, ivars, cvars>>

Next ==
  \/ DoPull /\ OnlyReader
  \/ DoAdvance /\ OnlyReader
  \/ DoRead /\ OnlyReader
  \/ DoSeek /\ OnlyReader
  \/ DoSync /\ OnlyReader
  \/ DoReadHint /\ OnlyReader
  \/ DoClose /\ OnlyReader
  \/ DoReadInto /\ OnlyReader
  \/ DoCopy /\ OnlyReader

Spec == Init /\ [][Next]_vars

(***************************************************************************)
(* The fragmented-pull scenario: the source yields "ab", "cd", "ef"; step  *)
(* counts how many calls of Pull(5, 5), cursor += 5, Pull(1, 1) the run    *)
(* has made, as long as it made no other call.                             *)
(***************************************************************************)
OffScenario == 4

ScenarioStep(s, op, n, rec) ==
  IF s = 0 /\ op = "Pull" /\ n = 5 /\ rec = 5 THEN 1
  ELSE IF s = 1 /\ op = "Advance" /\ n = 5 THEN 2
  ELSE IF s = 2 /\ op = "Pull" /\ n = 1 /\ rec = 1 THEN 3
  ELSE OffScenario

InitFrag ==
  /\ data = SubSeq(Alphabet, 1, 6)
  /\ rd = NewReader(<<2, 2, 2>>, 0, FALSE)
  /\ tw = rd
  /\ out = <<>>
  /\ hist = "readpull"
  /\ last = NoCall
  /\ tlast = NoCall
  /\ step = 0
  /\ w = NewWriter(1, 0, 0, 0)
  /\ written = <<>>
  /\ wlast = NoWCall
  /\ ir = NoStream /\ ilast = NoICall
  /\ ck = NoCookie /\ clast = NoCCall

FragPull ==
  \E m \in 1..MaxReq : \E rec \in {m, MaxReq}, slack \in 0..MaxSlack :
    /\ PullCall(m, rec, slack)
    /\ step' = ScenarioStep(step, "Pull", m, rec)
    /\ UNCHANGED <<tw, tlast>> /\ UNCHANGED <<wvars, ivars, cvars>>

FragAdvance ==
  \E n \in 1..MaxReq :
    /\ AdvanceCall(n)
    /\ step' = ScenarioStep(step, "Advance", n, 0)
    /\ UNCHANGED <<tw, tlast>> /\ UNCHANGED <<wvars, ivars, cvars>>

\* Any other call takes the run off the scenario.
FragOther ==
  /\ step' = OffScenario
  /\ UNCHANGED <<tw, tlast>> /\ UNCHANGED <<wvars, ivars, cvars>>

NextFrag ==
  \/ FragPull
  \/ FragAdvance
  \/ DoRead /\ FragOther
  \/ DoSeek /\ FragOther
  \/ DoSync /\ FragOther
  \/ DoReadHint /\ FragOther
  \/ DoClose /\ FragOther
  \/ DoReadInto /\ FragOther
  \/ DoCopy /\ FragOther

SpecFrag == InitFrag /\ [][NextFrag]_vars

(***************************************************************************)
(* Two readers over the same data: rd over any fragments, tw over single   *)
(* bytes, driven by the same Pull calls and cursor advances.               *)
(***************************************************************************)
InitTwin ==
  /\ \E n \in 0..MaxLen :
       /\ data = SubSeq(Alphabet, 1, n)
       /\ \E c \in Compositions(n) : rd = NewReader(c, 0, FALSE)
       /\ tw = NewReader([i \in 1..n |-> 1], 0, FALSE)
  /\ out = <<>>
  /\ hist = "mixed"
  /\ last = NoCall
  /\ tlast = NoCall
  /\ step = 0
  /\ w = NewWriter(1, 0, 0, 0)
  /\ written = <<>>
  /\ wlast = NoWCall
  /\ ir = NoStream /\ ilast = NoICall
  /\ ck = NoCookie /\ clast = NoCCall

TwinPull ==
  \E m \in 1..MaxReq :
    \E rec \in {m, MaxReq}, slack \in 0..MaxSlack, slack1 \in 0..MaxSlack :
      LET c == Pull(rd, m, rec, slack)
          c1 == Pull(tw, m, rec, slack1)
      IN /\ rd' = c.r
         /\ tw' = c1.r
         /\ last' = Called(rd, "Pull", m, c.ret, <<>>)
         /\ tlast' = Called(tw, "Pull", m, c1.ret, <<>>)
         /\ UNCHANGED <<data, out, hist, step>>
         /\ UNCHANGED <<wvars, ivars, cvars>>

TwinAdvance ==
  \E n \in 1..MaxReq :
    /\ n <= available(rd)
    /\ n <= available(tw)
    /\ rd' = move_cursor(rd, n)
    /\ tw' = move_cursor(tw, n)
    /\ last' = Called(rd, "Advance", n, TRUE, Bytes(rd, rd.cursor, n))
    /\ tlast' = Called(tw, "Advance", n, TRUE, Bytes(tw, tw.cursor, n))
    /\ UNCHANGED <<data, out, hist, step>>
    /\ UNCHANGED <<wvars, ivars, cvars>>

NextTwin == TwinPull \/ TwinAdvance

SpecTwin == InitTwin /\ [][NextTwin]_vars

(***************************************************************************)
(* The BufferedWriter: the calls as actions on w.  The caller writes the   *)
(* letters of Alphabet in order, so that every byte written is distinct.   *)
(***************************************************************************)
InitW ==
  /\ data = <<>>
  /\ rd = NewReader(<<>>, 0, FALSE)
  /\ tw = rd
  /\ out = <<>>
  /\ hist = "mixed"
  /\ last = NoCall
  /\ tlast = NoCall
  /\ step = 0
  /\ \E bs \in 1..MaxBufferSize, hint \in 0..MaxSizeHint,
        p \in {0, MaxPosition - 2}, f \in 0..2 :
       w = NewWriter(bs, hint, p, f)
  /\ written = <<>>
  /\ wlast = NoWCall
  /\ ir = NoStream /\ ilast = NoICall
  /\ ck = NoCookie /\ clast = NoCCall

NextBytes(n) == SubSeq(Alphabet, Len(written) + 1, Len(written) + n)

WCall(op, n, x, refused, src) ==
  /\ ~w.closed
  /\ Len(written) + Len(src) <= MaxWritten
  /\ w' = x
  /\ written' = written \o src
  /\ wlast' = WCalled(w, op, n, refused)
  /\ UNCHANGED <<rvars, ivars, cvars>>

WriteCall(n, slack) ==
  LET c == Write(w, NextBytes(n), slack)
  IN WCall("Write", n, c.w, ~c.ret, NextBytes(n))

WriteZerosCall(n, slack) ==
  LET c == WriteZeros(w, n, slack)
  IN WCall("WriteZeros", n, c.w, ~c.ret, Zeros(n))

PushCall(m, slack) ==
  LET c == Push(w, m, m, slack)
  IN WCall("Push", m, c.w, ~c.ret, <<>>)

\* The caller writes n bytes into the buffer it pushed: cursor += n.
FillCall(n) ==
  /\ n <= available(w)
  /\ WCall("Fill", n, CopyIn(w, NextBytes(n)), FALSE, NextBytes(n))

FlushCall ==
  LET c == FlushImpl(w) IN WCall("Flush", 0, c.w, ~c.ret, <<>>)

WSeekCall(q) ==
  LET c == WSeek(w, q) IN WCall("Seek", q, c.w, ~c.ret, <<>>)

SizeCall ==
  LET c == SizeImpl(w) IN WCall("Size", 0, c.w, c.ret = {}, <<>>)

TruncateCall(q) ==
  LET c == TruncateImpl(w, q) IN WCall("Truncate", q, c.w, ~c.ret, <<>>)

ReadModeCall(q) ==
  LET c == ReadModeImpl(w, q)
  IN WCall("ReadMode", q, c.w, c.ret = NullPtr, <<>>)

WCloseCall == WCall("Close", 0, WDone(w), ~w.ok, <<>>)

DoWrite == \E n \in 0..MaxWrite, slack \in 0..MaxSlack : WriteCall(n, slack)
DoWriteZeros ==
  \E n \in 0..MaxWrite, slack \in 0..MaxSlack : WriteZerosCall(n, slack)
DoPush == \E m \in 0..MaxWrite, slack \in 0..MaxSlack : PushCall(m, slack)
DoFill == \E n \in 1..MaxWrite : FillCall(n)
DoFlush == FlushCall
DoWSeek == \E q \in {0, wpos(w), MaxPosition} : WSeekCall(q)
DoSize == SizeCall
DoTruncate == TruncateCall(0)
DoReadMode == ReadModeCall(0)
DoWClose == WCloseCall

NextW ==
  \/ DoWrite \/ DoWriteZeros \/ DoPush \/ DoFill \/ DoFlush
  \/ DoWSeek \/ DoSize \/ DoTruncate \/ DoReadMode \/ DoWClose

SpecW == InitW /\ [][NextW]_vars

\* A BufferedWriter over a sink whose offsets are signed (they end at
\* MaxOffset), opened at or just below that last offset.
InitWOffset ==
  /\ data = <<>>
  /\ rd = NewReader(<<>>, 0, FALSE)
  /\ tw = rd
  /\ out = <<>>
  /\ hist = "mixed"
  /\ last = NoCall
  /\ tlast = NoCall
  /\ step = 0
  /\ \E bs \in 1..MaxBufferSize, hint \in {0, MaxOffset},
        p \in {MaxOffset - 1, MaxOffset}, f \in 0..1 :
       w = NewWriterUpTo(bs, hint, p, f, MaxOffset)
  /\ written = <<>>
  /\ wlast = NoWCall
  /\ ir = NoStream /\ ilast = NoICall
  /\ ck = NoCookie /\ clast = NoCCall

SpecWOffset == InitWOffset /\ [][NextW]_vars

(***************************************************************************)
(* Properties of the PullableReader                                        *)
(***************************************************************************)
\* The stream bytes at positions p .. p + n - 1.
Source(p, n) == SubSeq(data, p + 1, p + n)

\* C1: after every public call, start <= cursor <= limit.
C1_PointerOrder == rd.start <= rd.cursor /\ rd.cursor <= rd.limit

\* A call has left the reader in scratch, partly read, with a saved
\* underlying buffer whose cursor is not at its start.
C1_Witness ==
  /\ scratch_used(rd) /\ rd.start < rd.cursor /\ rd.cursor < rd.limit
  /\ rd.ostc > 0 /\ rd.ostc < rd.ostl

\* C2: while only Read(char*) and Pull have been called, the bytes delivered
\* so far are exactly the source up to pos(); when a Read reports the end of
\* an unfailed source they are the whole source.
C2_ReadsConcatenate ==
  hist = "readpull" =>
    /\ out = Source(0, pos(rd))
    /\ (last.op = "Read" /\ ~last.ret /\ rd.ok => out = data)

C2_Witness ==
  /\ hist = "readpull" /\ rd.sp /\ last.op = "Read" /\ ~last.ret /\ rd.ok
  /\ last.scratch0 /\ Len(out) >= 4 /\ Len(rd.cuts) >= 3

\* C3: when Pull(min, rec) returns true, available() >= min and the view is
\* the source from pos() on.
C3_PullView ==
  last.op = "Pull" /\ last.ret =>
    /\ available(rd) >= last.n
    /\ View(rd) = Source(pos(rd), available(rd))

\* A Pull issued while an earlier scratch was partly unread built a new one.
C3_Witness ==
  /\ last.op = "Pull" /\ last.ret /\ last.scratch0 /\ scratch_used(rd)
  /\ last.n >= 3 /\ last.pos0 > 0

\* C4: no Pull or Read (to char*, Chain or Cord) decreases pos(), whether it
\* succeeds or fails after delivering part of the bytes.
C4_PosMonotone ==
  last.op \in {"Pull", "Read", "ReadInto"} => pos(rd) >= last.pos0

\* A Read failed on a source failure after delivering bytes.
C4_Witness ==
  /\ last.op = "Read" /\ ~last.ret /\ ~rd.ok /\ last.ok0
  /\ pos(rd) > last.pos0

\* C5: a Read(n) of an unfailed source with r < n bytes left returns false,
\* leaves ok(), ends at the end of the stream and has delivered the r bytes.
C5_ShortRead ==
  (last.op = "Read" /\ last.ok0 /\ rd.failAt = 0
     /\ Len(data) - last.pos0 < last.n) =>
    /\ ~last.ret
    /\ rd.ok
    /\ pos(rd) = Len(data)
    /\ last.got = Source(last.pos0, Len(data) - last.pos0)

C5_Witness ==
  /\ last.op = "Read" /\ last.scratch0 /\ rd.failAt = 0
  /\ Len(data) - last.pos0 < last.n /\ Len(last.got) >= 3
  /\ ~last.ret /\ rd.ok

\* C8: once the reader has failed, every Pull, Read, Copy and Seek returns
\* false and leaves pos() unchanged.
C8_StickyFailure ==
  (~last.ok0 /\ last.op \in {"Pull", "Read", "ReadInto", "Copy"}) =>
    (~last.ret /\ pos(rd) = last.pos0)

\* C9: after every Pull(k) the two readers agree on the return value, on
\* pos() and, when it succeeded, on the first k bytes of the view.
C9_ScratchTransparent ==
  last.op = "Pull" =>
    /\ tlast.op = "Pull" /\ tlast.n = last.n
    /\ last.ret = tlast.ret
    /\ pos(rd) = pos(tw)
    /\ (last.ret => Prefix(View(rd), last.n) = Prefix(View(tw), last.n))

\* One reader served the Pull from a fragment, the other from scratch.
C9_Witness ==
  /\ last.op = "Pull" /\ last.ret /\ last.n >= 3 /\ last.pos0 > 0
  /\ scratch_used(tw) /\ ~scratch_used(rd) /\ rd.cuts # tw.cuts

\* C10 as amended: Pull(5, 5) on the fresh reader succeeds with pos() = 0
\* and a view that begins with "abcde" and holds 5 or 6 bytes; after
\* cursor += 5, Pull(1, 1) succeeds and the view begins with "f".
C10_FragmentedPull ==
  /\ step = 1 =>
       /\ last.ret
       /\ pos(rd) = 0
       /\ available(rd) \in {5, 6}
       /\ Prefix(View(rd), 5) = <<"a", "b", "c", "d", "e">>
  /\ step = 3 =>
       /\ last.ret
       /\ available(rd) >= 1
       /\ Prefix(View(rd), 1) = <<"f">>

C10_Witness == step = 3 /\ pos(rd) = 5 /\ last.op = "Pull"

\* C10 as stated: available() == 5 after Pull(5, 5).
C10_ExactlyFive ==
  /\ step = 1 =>
       /\ last.ret
       /\ pos(rd) = 0
       /\ available(rd) = 5
       /\ Prefix(View(rd), 5) = <<"a", "b", "c", "d", "e">>
  /\ step = 3 =>
       /\ last.ret
       /\ available(rd) >= 1
       /\ Prefix(View(rd), 1) = <<"f">>

(***************************************************************************)
(* Properties of the BufferedWriter                                        *)
(***************************************************************************)

\* C6: while the writer has not failed, the bytes handed to WriteInternal
\* followed by the bytes still in the buffer are exactly the bytes the caller
\* wrote, in order; after a Flush or a Close nothing is left in the buffer, so
\* the WriteInternal arguments alone concatenate to the Write arguments, no
\* byte missing, repeated or out of place.
C6_BytesConserved ==
  (w.failAt = 0 /\ w.ok) =>
    /\ w.sink \o w.buf = written
    /\ (wlast.op \in {"Flush", "Close"} => w.buf = <<>> /\ w.sink = written)

C6_Witness ==
  /\ w.failAt = 0 /\ w.ok
  /\ wlast.op = "Close"
  /\ Len(written) = MaxWritten
  /\ w.calls >= 2
  /\ w.sink = written

WOps == {"Write", "Push", "WriteZeros", "Flush", "Seek", "Size", "Truncate",
         "ReadMode"}

\* The calls that need nothing from the writer: an empty Write, Push(0),
\* WriteZeros(0), and Seek to the current position.
Vacuous(c) ==
  \/ c.op \in {"Write", "Push", "WriteZeros"} /\ c.n = 0
  \/ c.op = "Seek" /\ c.n = c.pos0

\* C7 as stated: on a failed writer every one of the listed calls is refused,
\* makes no WriteInternal call and leaves pos() alone.
C7_AllRefused ==
  (wlast.op \in WOps /\ ~wlast.ok0) =>
    /\ wlast.refused
    /\ w.calls = wlast.calls0
    /\ wpos(w) = wlast.pos0

\* C7: on a failed writer none of the listed calls reaches WriteInternal or
\* changes pos(), and every one of them is refused except those the inline
\* fast path answers without touching the writer: an empty Write, Push(0),
\* WriteZeros(0) and Seek(pos()).
C7_StickyFailure ==
  (wlast.op \in WOps /\ ~wlast.ok0) =>
    /\ w.calls = wlast.calls0
    /\ wpos(w) = wlast.pos0
    /\ ~w.ok
    /\ (~Vacuous(wlast) => wlast.refused)

C7_Witness ==
  /\ wlast.op = "Write" /\ wlast.n > 0
  /\ ~wlast.ok0 /\ wlast.refused
  /\ w.status = "unknown"
  /\ Len(w.sink) > 0

\* C17: a Push on a writer that was ok and whose flush did not fail either
\* fails with resource-exhausted and leaves no buffer, when min_length is more
\* than what is left up to MaxPosition behind the flushed bytes, or else
\* returns true with room for min_length; and the position of the buffer
\* limit is never past MaxPosition.
C17_PushOverflow ==
  /\ wlimit_pos(w) <= MaxPosition
  /\ (wlast.op = "Push" /\ wlast.ok0 /\ w.status # "unknown") =>
       IF wlast.n > MaxPosition - wlast.pos0
         THEN /\ wlast.refused
              /\ w.status = "resource-exhausted"
              /\ w.start = NullPtr /\ start_to_limit(w) = 0
         ELSE /\ ~wlast.refused
              /\ w.ok
              /\ available(w) >= wlast.n

C17_Witness ==
  /\ wlast.op = "Push" /\ wlast.ok0 /\ wlast.refused
  /\ wlast.n > MaxPosition - wlast.pos0
  /\ Len(w.sink) > 0
  /\ w.status = "resource-exhausted"

\* C18 as stated: one byte written at position MaxOffset is refused with
\* resource-exhausted.
C18_RefusedAtOnce ==
  (wlast.op = "Write" /\ wlast.n = 1 /\ wlast.ok0 /\ wlast.pos0 = MaxOffset
     /\ w.failAt = 0) =>
    wlast.refused /\ w.status = "resource-exhausted"

\* C18: one byte written at position MaxOffset never reaches the sink: the
\* Write is refused with resource-exhausted when it goes to WriteInternal
\* directly, and otherwise returns true with the byte only in the buffer;
\* the Flush of bytes buffered past MaxOffset is refused with
\* resource-exhausted.
C18_OverflowAtSink ==
  /\ w.start_pos <= MaxOffset
  /\ (wlast.op = "Write" /\ wlast.n = 1 /\ wlast.ok0 /\ wlast.pos0 = MaxOffset
        /\ w.failAt = 0) =>
       \/ wlast.refused /\ w.status = "resource-exhausted"
       \/ ~wlast.refused /\ w.ok
            /\ wpos(w) = MaxOffset + 1 /\ Len(w.buf) >= 1
  /\ (wlast.op = "Flush" /\ wlast.ok0 /\ wlast.pos0 > MaxOffset
        /\ w.failAt = 0) =>
       wlast.refused /\ w.status = "resource-exhausted"

C18_Witness ==
  /\ wlast.op = "Flush" /\ wlast.ok0 /\ wlast.pos0 = MaxOffset + 1
  /\ wlast.refused /\ w.status = "resource-exhausted"
  /\ Len(written) = 1 /\ w.sink = <<>>

(***************************************************************************)
(* Closing a PullableReader                                                *)
(***************************************************************************)
Closing == last'.op = "Close"

Released(r) == r.closed /\ ~r.sp /\ r.sbuf = <<>>

IMaxSize == 3          \* largest stream
IMaxRead == 3          \* largest length asked of Read
IStreamBufferSize == 2 \* capacity of the reader's buffer
MaxProbes == 2         \* the count of probing seeks stops here
NoBreak == IMaxSize + 2

Smaller(a, b) == IF a <= b THEN a ELSE b
Larger(a, b) == IF a >= b THEN a ELSE b
NoBytes == <<>>
Offsets(from, n) == [i \in 1..n |-> from + i - 1]

\* ---- std::istream ----
fail(x) == x.failbit \/ x.badbit
clear_eofbit(x) == [x EXCEPT !.eofbit = FALSE]
clear_failbit(x) == [x EXCEPT !.failbit = FALSE]
\* The position cannot be told: tellg() gives -1 and sets no flag.
NoTell(x) == x.kind = "pipe" \/ (x.kind = "notellend" /\ x.spos >= x.size)
\* The stream refuses to seek to p.
NoSeek(x, p) ==
  x.kind \in {"pipe", "tellonly"} \/ (x.kind = "endonly" /\ p # x.size)
tellg(x) == IF fail(x) \/ NoTell(x) THEN 0 - 1 ELSE x.spos
\* sought keeps whether seekg() or tellg() was ever called on the stream.
Sought(x) == [x EXCEPT !.sought = TRUE]
\* IntCast<std::streamoff>(p) on the way to seekg(): past_offset keeps
\* whether a position above MaxOffset was ever cast.
SoughtTo(x, p) == [Sought(x) EXCEPT !.past_offset = @ \/ p > MaxOffset]
seekg(x, p) ==
  IF fail(x) \/ NoSeek(x, p)
    THEN [SoughtTo(x, p) EXCEPT !.eofbit = FALSE, !.failbit = TRUE]
    ELSE [SoughtTo(x, p) EXCEPT !.eofbit = FALSE, !.spos = p]
seekg_end(x) == seekg(x, x.size)
\* Bytes the stream can deliver from its position.
Readable(x) ==
  Larger(0, Smaller(x.size, x.breakAt) - x.spos)
peek(x) ==
  IF fail(x) \/ x.eofbit
    THEN [r |-> [x EXCEPT !.failbit = TRUE], eof |-> TRUE]
  ELSE IF x.spos >= x.size
    THEN [r |-> [x EXCEPT !.eofbit = TRUE], eof |-> TRUE]
  ELSE IF x.spos >= x.breakAt
    THEN [r |-> [x EXCEPT !.badbit = TRUE], eof |-> TRUE]
  ELSE [r |-> x, eof |-> FALSE]
readsome(x, n) ==
  IF fail(x) \/ x.eofbit
    THEN [r |-> [x EXCEPT !.failbit = TRUE], bytes |-> NoBytes]
  ELSE [r |-> [x EXCEPT !.spos = @ + Smaller(Smaller(n, x.some), Readable(x))],
        bytes |-> Offsets(x.spos, Smaller(Smaller(n, x.some), Readable(x)))]
read(x, n) ==
  IF fail(x) \/ x.eofbit
    THEN [r |-> [x EXCEPT !.failbit = TRUE], bytes |-> NoBytes]
  ELSE IF Readable(x) >= n
    THEN [r |-> [x EXCEPT !.spos = @ + n], bytes |-> Offsets(x.spos, n)]
  ELSE IF x.breakAt < x.size
    THEN [r |-> [x EXCEPT !.spos = @ + Readable(x), !.badbit = TRUE],
          bytes |-> Offsets(x.spos, Readable(x))]
  ELSE [r |-> [x EXCEPT !.spos = @ + Readable(x), !.eofbit = TRUE,
                        !.failbit = TRUE],
        bytes |-> Offsets(x.spos, Readable(x))]

\* ---- Reader base ----
\* Object::Fail as overridden by Reader, with the status code kept.
IStreamFail(x, code) ==
  [set_buffer(x, NullPtr, 0, 0) EXCEPT
     !.buf = NoBytes, !.ok = FALSE,
     !.status = IF @ = "ok" THEN code ELSE @]
IStreamFailOverflow(x) == IStreamFail(x, "resource-exhausted")
TheSize(x) == CHOOSE s \in x.size_ : TRUE
\* The buffered bytes not read yet.
Unread(x) == SubSeq(x.buf, start_to_cursor(x) + 1, Len(x.buf))

\* ---- IStreamReaderBase ----
FailOperation(x) == IStreamFail(x, "unknown")

\* Mutant: the size is cached even for a growing source.
FoundSize_AlwaysCaches(x, size) ==
  [x EXCEPT !.size_ = {size}, !.size_hint = {size}]

FoundSize(x, size) ==
  [x EXCEPT !.size_ = IF x.growing_source THEN @ ELSE {size},
            !.size_hint = {size}]

\* The reader before Initialize(): closed state aside, nothing known.
NewIStreamReader(stream, growing_source) ==
  [size |-> stream.size, spos |-> stream.spos, kind |-> stream.kind,
   failbit |-> stream.failbit, eofbit |-> stream.eofbit, badbit |-> FALSE,
   breakAt |-> stream.breakAt, some |-> stream.some,
   start |-> NullPtr, cursor |-> NullPtr, limit |-> NullPtr, buf |-> NoBytes,
   limit_pos |-> 0, size_ |-> {}, size_hint |-> {},
   supports_random_access_ |-> "false", growing_source |-> growing_source,
   ok |-> TRUE, status |-> "ok", closed |-> FALSE, probes |-> 0,
   sought |-> FALSE, past_offset |-> FALSE]

\* Mutant: random access is left to be probed although a position was
\* assumed.
Initialize_ProbesLater(x, assumed_pos) ==
  IF fail(x) THEN FailOperation(x)
  ELSE IF assumed_pos # {}
    THEN IF (CHOOSE p \in assumed_pos : TRUE) > MaxOffset
           THEN IStreamFailOverflow(clear_eofbit(x))
           ELSE [set_limit_pos(clear_eofbit(x), CHOOSE p \in assumed_pos : TRUE)
                   EXCEPT !.supports_random_access_ = "unknown"]
  ELSE IF tellg(clear_eofbit(x)) < 0 THEN Sought(clear_eofbit(x))
  ELSE [set_limit_pos(Sought(clear_eofbit(x)), tellg(clear_eofbit(x)))
          EXCEPT !.supports_random_access_ = "unknown"]

Initialize(x, assumed_pos) ==
  IF fail(x) THEN FailOperation(x)
  ELSE IF assumed_pos # {}
    THEN IF (CHOOSE p \in assumed_pos : TRUE) > MaxOffset
           THEN IStreamFailOverflow(clear_eofbit(x))
           ELSE set_limit_pos(clear_eofbit(x), CHOOSE p \in assumed_pos : TRUE)
  ELSE IF tellg(clear_eofbit(x)) < 0 THEN Sought(clear_eofbit(x))
  ELSE [set_limit_pos(Sought(clear_eofbit(x)), tellg(clear_eofbit(x)))
          EXCEPT !.supports_random_access_ = "unknown"]

\* supports_random_access(), lines 109-113: the probing seek to the end.
ProbeSeek(x) ==
  seekg_end([x EXCEPT !.probes = Smaller(@ + 1, MaxProbes)])

\* Mutant: the stream is not moved back from its end to limit_pos.
ProbeFound_StaysAtEnd(x) ==
  IF tellg(x) < 0 THEN FailOperation(x)
  ELSE [FoundSize(x, tellg(x)) EXCEPT !.supports_random_access_ = "true"]

\* supports_random_access(), lines 116-128: the seek to the end succeeded.
ProbeFound(x) ==
  IF tellg(x) < 0 THEN FailOperation(x)
  ELSE IF fail(seekg(x, x.limit_pos))
    THEN FailOperation(seekg(x, x.limit_pos))
  ELSE [FoundSize(seekg(x, x.limit_pos), tellg(x))
          EXCEPT !.supports_random_access_ = "true"]

\* Mutant: the failure flag of the refused seek is left set.
ProbeRefused_KeepsFailbit(x) == x

\* supports_random_access(), lines 114-115: the seek to the end failed.
ProbeRefused(x) == clear_failbit(x)

\* Mutant: the state is resolved to true or false but never kept, so
\* every query probes again.
Resolved_NotKept(x) == [x EXCEPT !.supports_random_access_ = "unknown"]

\* supports_random_access(), lines 130-132.
Resolved(x) ==
  IF x.supports_random_access_ = "true" THEN x
  ELSE [x EXCEPT !.supports_random_access_ = "false"]

Probed(x) ==
  IF fail(x) THEN Resolved(ProbeRefused(x)) ELSE Resolved(ProbeFound(x))

supports_random_access(x) ==
  IF x.supports_random_access_ = "false" THEN [r |-> x, ret |-> FALSE]
  ELSE IF x.supports_random_access_ = "true" THEN [r |-> x, ret |-> TRUE]
  ELSE [r |-> Probed(ProbeSeek(x)),
        ret |-> Probed(ProbeSeek(x)).supports_random_access_ = "true"]

\* ReadInternal, lines 209-229 (label fragment_read): rr is the stream after
\* a read together with the bytes it gave.
RECURSIVE ReadInternalLoop(_, _, _, _)
\* Mutant: at the end of the stream the failure flag is left set.
FragmentRead_KeepsFailbit(rr, min_length, max_length, got) ==
  IF fail(rr.r)
    THEN IF rr.r.badbit
           THEN [r |-> FailOperation(move_limit_pos(rr.r, Len(rr.bytes))),
                 ret |-> Len(rr.bytes) >= min_length,
                 got |-> got \o rr.bytes]
           ELSE [r |-> FoundSize(
                         clear_eofbit(move_limit_pos(rr.r, Len(rr.bytes))),
                         rr.r.limit_pos + Len(rr.bytes)),
                 ret |-> Len(rr.bytes) >= min_length,
                 got |-> got \o rr.bytes]
  ELSE IF Len(rr.bytes) >= min_length
    THEN [r |-> move_limit_pos(rr.r, Len(rr.bytes)), ret |-> TRUE,
          got |-> got \o rr.bytes]
  ELSE ReadInternalLoop(move_limit_pos(rr.r, Len(rr.bytes)),
                        min_length - Len(rr.bytes),
                        max_length - Len(rr.bytes), got \o rr.bytes)

FragmentRead(rr, min_length, max_length, got) ==
  IF fail(rr.r)
    THEN IF rr.r.badbit
           THEN [r |-> FailOperation(move_limit_pos(rr.r, Len(rr.bytes))),
                 ret |-> Len(rr.bytes) >= min_length,
                 got |-> got \o rr.bytes]
           ELSE [r |-> FoundSize(
                         clear_failbit(clear_eofbit(
                           move_limit_pos(rr.r, Len(rr.bytes)))),
                         rr.r.limit_pos + Len(rr.bytes)),
                 ret |-> Len(rr.bytes) >= min_length,
                 got |-> got \o rr.bytes]
  ELSE IF Len(rr.bytes) >= min_length
    THEN [r |-> move_limit_pos(rr.r, Len(rr.bytes)), ret |-> TRUE,
          got |-> got \o rr.bytes]
  ELSE ReadInternalLoop(move_limit_pos(rr.r, Len(rr.bytes)),
                        min_length - Len(rr.bytes),
                        max_length - Len(rr.bytes), got \o rr.bytes)

\* ReadInternal, lines 194-206: readsome(), and read() if it gave nothing.
ReadSome(rs, min_length, max_length, got) ==
  IF Len(rs.bytes) > 0 THEN FragmentRead(rs, min_length, max_length, got)
  ELSE FragmentRead(read(rs.r, min_length), min_length, max_length, got)

\* ReadInternal, lines 184-194: pk is the stream after peek().
PeekRead(pk, min_length, max_length, got) ==
  IF pk.eof
    THEN IF fail(pk.r)
           THEN [r |-> FailOperation(pk.r), ret |-> FALSE, got |-> got]
           ELSE [r |-> FoundSize(clear_eofbit(pk.r), pk.r.limit_pos),
                 ret |-> FALSE, got |-> got]
  ELSE ReadSome(readsome(pk.r, max_length), min_length, max_length, got)

\* ReadInternal, lines 170-207: sra is what supports_random_access() gave.
ReadFragment(sra, min_length, max_length, got) ==
  IF sra.ret /\ sra.r.size_ # {}
    THEN FragmentRead(
           read(sra.r,
                Smaller(Larger(min_length,
                               Larger(0, TheSize(sra.r) - sra.r.limit_pos)),
                        max_length)),
           min_length, max_length, got)
    ELSE PeekRead(peek(sra.r), min_length, max_length, got)

\* ReadInternal, lines 162-229: the loop.
ReadInternalLoop(x, min_length, max_length, got) ==
  IF min_length < max_length
    THEN ReadFragment(supports_random_access(x), min_length, max_length, got)
    ELSE FragmentRead(read(x, min_length), min_length, max_length, got)

\* Mutant: max_length is not clamped to what is left below MaxOffset.
ReadInternal_NoClamp(x, min_length, max_length) ==
  IF x.size_ # {} /\ x.limit_pos >= TheSize(x)
    THEN [r |-> x, ret |-> FALSE, got |-> NoBytes]
  ELSE ReadInternalLoop(x, min_length, max_length, NoBytes)

ReadInternal(x, min_length, max_length) ==
  IF x.size_ # {} /\ x.limit_pos >= TheSize(x)
    THEN [r |-> x, ret |-> FALSE, got |-> NoBytes]
  ELSE IF max_length > MaxOffset - x.limit_pos
    THEN IF MaxOffset - x.limit_pos < min_length
           THEN [r |-> IStreamFailOverflow(x), ret |-> FALSE, got |-> NoBytes]
           ELSE ReadInternalLoop(x, min_length, MaxOffset - x.limit_pos,
                                 NoBytes)
  ELSE ReadInternalLoop(x, min_length, max_length, NoBytes)

\* BufferedReader::SeekBehindBuffer, the default: unimplemented.
BaseSeekBehindBuffer(x) ==
  [r |-> IStreamFail(x, "unimplemented"), ret |-> FALSE]

\* Mutant: the stream is moved but limit_pos is not.
SeekTo_KeepsLimitPos(x, new_pos) ==
  IF fail(seekg(x, new_pos))
    THEN [r |-> FailOperation(seekg(x, new_pos)), ret |-> FALSE]
    ELSE [r |-> seekg(x, new_pos), ret |-> TRUE]

\* SeekBehindBuffer, lines 274-277.
SeekTo(x, new_pos) ==
  IF fail(seekg(x, new_pos))
    THEN [r |-> FailOperation(seekg(x, new_pos)), ret |-> FALSE]
    ELSE [r |-> set_limit_pos(seekg(x, new_pos), new_pos), ret |-> TRUE]

\* SeekBehindBuffer, lines 258-272: forwards with the size not cached; x is
\* the stream after the seek to its end.
SeekPastUnknownSize(x, new_pos) ==
  IF fail(x) THEN [r |-> FailOperation(x), ret |-> FALSE]
  ELSE IF tellg(x) < 0 THEN [r |-> FailOperation(x), ret |-> FALSE]
  ELSE IF new_pos > tellg(x)
    THEN [r |-> set_limit_pos(FoundSize(x, tellg(x)), tellg(x)),
          ret |-> FALSE]
  ELSE SeekTo(FoundSize(x, tellg(x)), new_pos)

\* SeekBehindBuffer, lines 241-277: random access is supported.
SeekStream(x, new_pos) ==
  IF ~x.ok THEN [r |-> x, ret |-> FALSE]
  ELSE IF new_pos > x.limit_pos
    THEN IF x.size_ # {}
           THEN IF new_pos > TheSize(x)
                  THEN IF fail(seekg(x, TheSize(x)))
                         THEN [r |-> FailOperation(seekg(x, TheSize(x))),
                               ret |-> FALSE]
                         ELSE [r |-> set_limit_pos(seekg(x, TheSize(x)),
                                                   TheSize(x)),
                               ret |-> FALSE]
                  ELSE SeekTo(x, new_pos)
           ELSE SeekPastUnknownSize(seekg_end(x), new_pos)
  ELSE SeekTo(x, new_pos)

IStreamSeekBehindBuffer(x, new_pos) ==
  IF ~supports_random_access(x).ret
    THEN BaseSeekBehindBuffer(supports_random_access(x).r)
    ELSE SeekStream(supports_random_access(x).r, new_pos)

\* The base class version of SizeImpl, "which fails" (lines 282-284).
BaseSizeImpl(x) == [r |-> IStreamFail(x, "unimplemented"), ret |-> {}]

\* SizeImpl, lines 290-306: x is the stream after the seek to its end.
SizeAtEnd(x) ==
  IF fail(x) THEN [r |-> FailOperation(x), ret |-> {}]
  ELSE IF tellg(x) < 0 THEN [r |-> FailOperation(x), ret |-> {}]
  ELSE IF fail(seekg(x, x.limit_pos))
    THEN [r |-> FailOperation(seekg(x, x.limit_pos)), ret |-> {}]
  ELSE [r |-> FoundSize(seekg(x, x.limit_pos), tellg(x)),
        ret |-> {tellg(x)}]

\* SizeImpl, lines 286-306: random access is supported.
SizeOfStream(x) ==
  IF ~x.ok THEN [r |-> x, ret |-> {}]
  ELSE IF x.size_ # {} THEN [r |-> x, ret |-> x.size_]
  ELSE SizeAtEnd(seekg_end(x))

\* Mutant: Size() does not resolve an unknown supports_random_access_.
IStreamSizeImpl_NoProbe(x) ==
  IF x.supports_random_access_ # "true"
    THEN BaseSizeImpl(x)
    ELSE SizeOfStream(x)

IStreamSizeImpl(x) ==
  IF ~supports_random_access(x).ret
    THEN BaseSizeImpl(supports_random_access(x).r)
    ELSE SizeOfStream(supports_random_access(x).r)

\* BufferedReader::Done: the reader is closed, at its position, without a
\* buffer.
BufferedReaderDone(x) ==
  [set_buffer(set_limit_pos(x, pos(x)), NullPtr, 0, 0) EXCEPT
     !.buf = NoBytes, !.ok = FALSE, !.closed = TRUE]

IStreamDone(x) ==
  IF BufferedReaderDone(x).supports_random_access_ = "unknown"
    THEN [BufferedReaderDone(x) EXCEPT !.supports_random_access_ = "false"]
    ELSE BufferedReaderDone(x)

\* ---- BufferedReader, the public calls ----
\* The buffer after ReadInternal gave got behind the bytes not read yet.
Refilled(x, ri) ==
  IF ri.r.ok
    THEN [r |-> [set_buffer(ri.r, 1, Len(Unread(x)) + Len(ri.got), 0)
                   EXCEPT !.buf = Unread(x) \o ri.got],
          ret |-> ri.ret]
    ELSE [r |-> ri.r, ret |-> FALSE]

IStreamPull(x, min_length) ==
  IF available(x) >= min_length THEN [r |-> x, ret |-> TRUE]
  ELSE IF ~x.ok THEN [r |-> x, ret |-> FALSE]
  ELSE Refilled(x, ReadInternal(x, min_length - available(x),
                                Larger(min_length, IStreamBufferSize)
                                  - available(x)))

\* Read(length, dest): what the buffer holds after Pull(length) goes to dest.
Delivered(p, length) ==
  [r |-> move_cursor(p.r, Smaller(length, available(p.r))),
   ret |-> available(p.r) >= length,
   got |-> SubSeq(Unread(p.r), 1, Smaller(length, available(p.r)))]

IStreamRead(x, length) == Delivered(IStreamPull(x, length), length)

IStreamSeek(x, new_pos) ==
  IF InBuffer(x, new_pos)
    THEN [r |-> SeekInBuffer(x, new_pos), ret |-> TRUE]
    ELSE IStreamSeekBehindBuffer(
           [set_buffer(x, NullPtr, 0, 0) EXCEPT !.buf = NoBytes], new_pos)

IStreamSize(x) == IStreamSizeImpl(x)

(***************************************************************************)
(* Runs of an IStreamReader                                                *)
(***************************************************************************)
StreamKinds == {"pipe", "tellonly", "file", "notellend", "endonly"}
Streams ==
  {[size |-> n, spos |-> p, kind |-> k, failbit |-> bits = "fail",
    eofbit |-> bits = "eof", breakAt |-> b, some |-> s] :
     n \in 0..IMaxSize, p \in 0..1, k \in StreamKinds,
     bits \in {"good", "eof", "fail"}, b \in {1, NoBreak},
     s \in {0, IStreamBufferSize}}

InitIStream ==
  /\ data = <<>>
  /\ rd = NewReader(<<>>, 0, FALSE)
  /\ tw = rd
  /\ out = <<>>
  /\ hist = "mixed"
  /\ last = NoCall
  /\ tlast = NoCall
  /\ step = 0
  /\ w = NewWriter(1, 0, 0, 0)
  /\ written = <<>>
  /\ wlast = NoWCall
  /\ \E stream \in Streams, growing \in BOOLEAN,
        assumed_pos \in {{}, {1}, {MaxOffset - 1}, {MaxOffset + 1}} :
       /\ stream.spos <= stream.size
       /\ ir = Initialize(NewIStreamReader(stream, growing), assumed_pos)
  /\ ilast = NoICall
  /\ ck = NoCookie /\ clast = NoCCall

\* A public call op(n) that took the reader from ir to x and gave ret (a
\* boolean), size (what Size() returned) and got (the bytes of a Read).
IStreamCall(op, n, x, ret, size, got) ==
  /\ ir' = x
  /\ ilast' = [op |-> op, n |-> n, before |-> ir, ret |-> ret,
               size |-> size, got |-> got]
  /\ UNCHANGED <<rvars, wvars, cvars>>

DoIStreamRead ==
  \E n \in 1..IMaxRead :
    IStreamCall("Read", n, IStreamRead(ir, n).r, IStreamRead(ir, n).ret,
                {}, IStreamRead(ir, n).got)

DoIStreamSeek ==
  \E q \in 0..(IMaxSize + 1) \cup {MaxPosition} :
    IStreamCall("Seek", q, IStreamSeek(ir, q).r, IStreamSeek(ir, q).ret,
                {}, NoBytes)

DoIStreamSize ==
  IStreamCall("Size", 0, IStreamSize(ir).r, IStreamSize(ir).ret # {},
              IStreamSize(ir).ret, NoBytes)

DoIStreamClose ==
  /\ ~ir.closed
  /\ IStreamCall("Close", 0, IStreamDone(ir), ir.ok, {}, NoBytes)

\* The stream of a growing source gets one more byte between two calls.
Grow ==
  /\ ir.growing_source /\ ~ir.closed /\ ir.size < IMaxSize
  /\ IStreamCall("Grow", 0, [ir EXCEPT !.size = @ + 1], TRUE, {}, NoBytes)

NextIStream ==
  \/ DoIStreamRead
  \/ DoIStreamSeek
  \/ DoIStreamSize
  \/ DoIStreamClose
  \/ Grow

SpecIStream == InitIStream /\ [][NextIStream]_vars

(***************************************************************************)
(* Claims about the IStreamReader                                          *)
(***************************************************************************)
\* C12: the lazily resolved supports_random_access_ only leaves "unknown":
\* once it is "true" or "false" no call changes it; the probing seek to the
\* end of the stream is issued at most once in the life of the reader; and
\* a closed reader is never left "unknown".
C12_LazyResolution ==
  /\ [](/\ ir.probes <= 1
        /\ ir.closed => ir.supports_random_access_ # "unknown")
  /\ [][ir.supports_random_access_ # "unknown" =>
          ir'.supports_random_access_ = ir.supports_random_access_]_vars

C12_Witness ==
  /\ ilast.op \in {"Read", "Seek", "Size"}
  /\ ilast.before.supports_random_access_ = "true"
  /\ ilast.before.probes = 1
  /\ ir.supports_random_access_ = "true" /\ ir.probes = 1
  /\ ir.ok /\ ir.limit_pos # ilast.before.limit_pos

\* The stream refuses every seek, so the probing seek to its end fails.
CannotSeek(x) == x.kind \in {"pipe", "tellonly"}

\* A stream whose tellg() and seekg() do not fail once one of them worked.
Steady(x) == x.kind \in {"pipe", "tellonly", "file"}

\* The last call was made on an open, healthy reader over a stream that
\* cannot seek.
OnUnseekable ==
  /\ ilast.op # "none"
  /\ ilast.before.ok /\ CannotSeek(ilast.before)

\* C13 as stated: over an unseekable stream the first Size() returns
\* nothing, resolves random access to "false" and leaves the reader ok.
C13_SizeKeepsOk ==
  (OnUnseekable /\ ilast.op = "Size") =>
    /\ ilast.size = {}
    /\ ir.supports_random_access_ = "false"
    /\ ir.ok

\* C13: over an unseekable stream Size() returns nothing and resolves
\* random access to "false"; the base class version of SizeImpl it
\* delegates to fails the reader, so the reader is not ok afterwards.
C13_SizeFails ==
  (OnUnseekable /\ ilast.op = "Size") =>
    /\ ilast.size = {}
    /\ ir.supports_random_access_ = "false"
    /\ ~ir.ok /\ ir.status # "ok"

C13_Witness ==
  /\ OnUnseekable /\ ilast.op = "Size"
  /\ ilast.before.supports_random_access_ = "unknown"
  /\ ilast.before.probes = 0 /\ ir.probes = 1
  /\ ilast.size = {} /\ ~ir.ok

\* The last call was Seek(q), with q outside the buffer, on a healthy reader
\* that was constructed without assumed_pos over a stream that can seek.
SoughtBehindBuffer ==
  /\ ilast.op = "Seek"
  /\ ilast.before.ok /\ ilast.before.kind = "file"
  /\ ilast.before.supports_random_access_ # "false"
  /\ ~InBuffer(ilast.before, ilast.n)

\* C14: such a Seek(q) over a stream of size S returns true exactly if
\* q <= S and leaves the reader ok with pos() and the stream's own position
\* at min(q, S); a Size() that follows returns S.
C14_SeekClamps ==
  SoughtBehindBuffer =>
    /\ ilast.ret <=> ilast.n <= ir.size
    /\ ir.ok
    /\ pos(ir) = Smaller(ilast.n, ir.size)
    /\ ir.spos = Smaller(ilast.n, ir.size)
    /\ IStreamSize(ir).ret = {ir.size}
    /\ IStreamSize(ir).r.ok

C14_Witness ==
  /\ SoughtBehindBuffer
  /\ ilast.before.supports_random_access_ = "unknown"
  /\ ilast.before.limit_pos = 1
  /\ ilast.n = 2 /\ ir.size = 3
  /\ ilast.ret /\ pos(ir) = 2 /\ ir.spos = 2
  /\ ir.supports_random_access_ = "true"

\* The reader x with its random access resolved to "false" by one probe
\* and nothing else changed.
ResolvedFalse(x) ==
  [x EXCEPT !.supports_random_access_ = "false", !.probes = @ + 1]

\* C15: when the probe finds that the stream cannot seek, it changes
\* nothing of the reader but the resolved state: limit_pos, the buffer, the
\* cached size and ok() stay as they were and the stream's failure flag is
\* clear again; and a Read during which the probe ran delivers the bytes it
\* delivers with random access already known to be unsupported.
C15_ProbeFrame ==
  /\ (ir.supports_random_access_ = "unknown" /\ CannotSeek(ir)) =>
       /\ supports_random_access(ir).r = ResolvedFalse(ir)
       /\ ~supports_random_access(ir).ret
       /\ ~supports_random_access(ir).r.failbit
  /\ (/\ ilast.op = "Read"
      /\ ilast.before.supports_random_access_ = "unknown"
      /\ CannotSeek(ilast.before)) =>
       /\ ilast.got = IStreamRead([ilast.before EXCEPT
                                     !.supports_random_access_ = "false"],
                                  ilast.n).got
       /\ ilast.ret = IStreamRead([ilast.before EXCEPT
                                     !.supports_random_access_ = "false"],
                                  ilast.n).ret
       /\ ir.probes <= 1
       /\ [ir EXCEPT !.probes = 0, !.supports_random_access_ = "false"]
            = IStreamRead([ilast.before EXCEPT
                             !.supports_random_access_ = "false"],
                          ilast.n).r

C15_Witness ==
  /\ ilast.op = "Read" /\ ilast.before.ok
  /\ ilast.before.supports_random_access_ = "unknown"
  /\ ilast.before.kind = "tellonly"
  /\ ir.supports_random_access_ = "false" /\ ir.probes = 1
  /\ ir.ok /\ ~ir.failbit
  /\ ilast.got = Offsets(ilast.before.spos, 1)
  /\ ilast.before.limit_pos = 1 /\ Len(ir.buf) = 2

\* The last call was a Read on a healthy reader of a growing source that
\* had read up to the end it found, after which the stream got more bytes;
\* the stream never breaks, its tellg() and seekg() do not fail once they
\* worked, and the Read does not ask for bytes past the largest stream
\* offset.
ReadAfterGrowth ==
  /\ ilast.op = "Read" /\ Steady(ilast.before)
  /\ ilast.before.growing_source /\ ilast.before.ok
  /\ ilast.before.size_hint = {ilast.before.limit_pos}
  /\ available(ilast.before) = 0
  /\ Readable(ilast.before) > 0 /\ ilast.before.breakAt = NoBreak
  /\ ilast.before.limit_pos + ilast.n <= MaxOffset

\* C16: with growing_source the size is never cached; a Read after the
\* stream has grown asks the stream again and gets its new bytes; and a
\* Size() that returns a value returns the current size of the stream.
C16_GrowingSource ==
  /\ ir.growing_source => ir.size_ = {}
  /\ ReadAfterGrowth =>
       /\ Len(ilast.got) >= 1
       /\ ilast.got[1] = ilast.before.spos
  /\ (ilast.op = "Size" /\ ilast.before.growing_source /\ ilast.size # {}) =>
       ilast.size = {ir.size}

C16_Witness ==
  /\ ReadAfterGrowth
  /\ ilast.before.supports_random_access_ = "true"
  /\ ilast.before.limit_pos = 2 /\ ir.size = 3
  /\ ilast.got = <<2>> /\ ir.ok
  /\ ir.size_ = {} /\ ir.size_hint = {3}

(***************************************************************************)
(* WriterCFile: the FILE cookie over a Writer (writer_cfile.cc).  The      *)
(* record ck holds the cookie, the Writer it writes to and the Reader of   *)
(* the Writer's read mode: dest is what the Writer has written, wpos its   *)
(* position, reader tells whether reader_ is set and rpos is the position  *)
(* of that Reader.                                                         *)
(***************************************************************************)
MaxDest == 5       \* most bytes the Writer holds
MaxFileRead == 2   \* largest length asked of the read callback
SEEK_SET == 0
SEEK_CUR == 1
SEEK_END == 2

\* ---- the Writer behind the cookie and the Reader of its read mode ----
Overwrite(dest, p, src) ==
  [i \in 1..Larger(Len(dest), p + Len(src)) |->
     IF i > p /\ i <= p + Len(src) THEN src[i - p] ELSE dest[i]]

AnyWriterFail(c) == [c EXCEPT !.wok = FALSE]

AnyWriterWrite(c, src) ==
  IF ~c.wok THEN [c |-> c, ret |-> FALSE]
  ELSE [c |-> [c EXCEPT !.dest = Overwrite(c.dest, c.wpos, src),
                        !.wpos = @ + Len(src)],
        ret |-> TRUE]

AnyWriterFlush(c) == [c |-> c, ret |-> c.wok]

AnyWriterSeek(c, new_pos) ==
  IF ~c.wok THEN [c |-> c, ret |-> FALSE]
  ELSE IF new_pos = c.wpos THEN [c |-> c, ret |-> TRUE]
  ELSE IF ~c.random_access THEN [c |-> AnyWriterFail(c), ret |-> FALSE]
  ELSE IF new_pos > Len(c.dest)
    THEN [c |-> [c EXCEPT !.wpos = Len(c.dest)], ret |-> FALSE]
  ELSE [c |-> [c EXCEPT !.wpos = new_pos], ret |-> TRUE]

AnyWriterSize(c) == IF c.wok THEN {Len(c.dest)} ELSE {}

\* Writer::ReadMode(initial_pos): a Reader of what was written, at
\* initial_pos or at the end if that comes first; nullptr on failure.  With
\* reader_fails the Reader fails on its way to initial_pos > 0: it is
\* returned at position 0, not ok (rok).
AnyWriterReadMode(c, initial_pos) ==
  IF ~c.wok THEN [c EXCEPT !.reader = FALSE]
  ELSE IF ~c.read_mode THEN [AnyWriterFail(c) EXCEPT !.reader = FALSE]
  ELSE IF c.reader_fails /\ initial_pos > 0
    THEN [c EXCEPT !.reader = TRUE, !.rpos = 0, !.rok = FALSE]
  ELSE [c EXCEPT !.reader = TRUE, !.rok = TRUE,
                 !.rpos = Smaller(initial_pos, Len(c.dest))]

AnyReaderSeek(c, new_pos) ==
  IF ~c.rok THEN [c |-> c, ret |-> FALSE]
  ELSE IF new_pos > Len(c.dest)
    THEN [c |-> [c EXCEPT !.rpos = Len(c.dest)], ret |-> FALSE]
    ELSE [c |-> [c EXCEPT !.rpos = new_pos], ret |-> TRUE]

AnyReaderSize(c) == IF c.rok THEN {Len(c.dest)} ELSE {}

\* ---- WriterCFileCookieBase ----
\* What a callback leaves in errno: EINVAL, ESPIPE, the errno of a status
\* (StatusCodeToErrno), or nothing.
NoErrno == "unset"
StatusErrno == "status"

\* Read, lines 71-87: reader_ is set and stands where it should.  Pull(1)
\* returns false at the end of the data and on a failed Reader alike.
CookieReadBytes(c, length) ==
  IF ~c.rok \/ c.rpos >= Len(c.dest)
    THEN [c |-> c, ret |-> 0, got |-> NoBytes, errno |-> NoErrno]
  ELSE [c |-> [c EXCEPT !.rpos = @ + Smaller(length, Len(c.dest) - c.rpos)],
        ret |-> Smaller(length, Len(c.dest) - c.rpos),
        got |-> SubSeq(c.dest, c.rpos + 1,
                       c.rpos + Smaller(length, Len(c.dest) - c.rpos)),
        errno |-> NoErrno]

\* Read, lines 57-70: c is the cookie after ReadMode(pos).
CookieReadEntered(c, at, length) ==
  IF ~c.reader
    THEN [c |-> c, ret |-> 0 - 1, got |-> NoBytes, errno |-> StatusErrno]
  ELSE IF c.rpos # at
    THEN [c |-> c, ret |-> 0 - 1, got |-> NoBytes,
          errno |-> IF ~c.rok THEN StatusErrno ELSE "EINVAL"]
  ELSE CookieReadBytes(c, length)

\* Mutant: the position of the Reader that ReadMode returned is not
\* compared with the position of the Writer.
CookieRead_NoPositionCheck(c, length) ==
  IF ~c.reader
    THEN IF ~AnyWriterReadMode(c, c.wpos).reader
           THEN [c |-> AnyWriterReadMode(c, c.wpos), ret |-> 0 - 1,
                 got |-> NoBytes, errno |-> StatusErrno]
           ELSE CookieReadBytes(AnyWriterReadMode(c, c.wpos), length)
    ELSE CookieReadBytes(c, length)

CookieRead(c, length) ==
  IF ~c.reader
    THEN CookieReadEntered(AnyWriterReadMode(c, c.wpos), c.wpos, length)
    ELSE CookieReadBytes(c, length)

\* Write, lines 107-117: sw is what Writer::Seek gave, or the Writer as it
\* was when no reader was set.
CookieWriteBytes(sw, src) ==
  IF ~sw.ret THEN [c |-> sw.c, ret |-> 0]
  ELSE IF ~AnyWriterWrite(sw.c, src).ret
    THEN [c |-> AnyWriterWrite(sw.c, src).c, ret |-> 0]
  ELSE IF sw.c.flush /\ ~AnyWriterFlush(AnyWriterWrite(sw.c, src).c).ret
    THEN [c |-> AnyWriterWrite(sw.c, src).c, ret |-> 0]
  ELSE [c |-> AnyWriterWrite(sw.c, src).c, ret |-> Len(src)]

\* Mutant: the Writer is not moved to where the Reader stood.
CookieWrite_NoSeek(c, src) ==
  CookieWriteBytes([c |-> [c EXCEPT !.reader = FALSE], ret |-> TRUE], src)

CookieWrite(c, src) ==
  IF c.reader
    THEN CookieWriteBytes(AnyWriterSeek([c EXCEPT !.reader = FALSE], c.rpos),
                          src)
    ELSE CookieWriteBytes([c |-> c, ret |-> TRUE], src)

\* The position fseek moves from, lines 133 and 196.
CookiePos(c) == IF c.reader THEN c.rpos ELSE c.wpos

\* Seek, lines 156-180: the size SEEK_END counts from, and the errno left
\* when there is none.
CookieSize(c) ==
  IF c.reader THEN AnyReaderSize(c)
  ELSE IF ~c.supports_size THEN {}
  ELSE AnyWriterSize(c)
CookieSizeErrno(c) ==
  IF ~c.reader /\ ~c.supports_size THEN "ESPIPE" ELSE StatusErrno
TheCookieSize(c) == CHOOSE s \in CookieSize(c) : TRUE

\* The least offset, -2^63 in the code.
MinOffset == 0 - MaxOffset - 1

\* Seek evaluates -offset (lines 135, 139, 182 and 186): for SEEK_CUR when
\* offset < 0, for SEEK_END when a size was found and offset <= 0.
Negates(c, offset, whence) ==
  \/ whence = SEEK_CUR /\ offset < 0
  \/ whence = SEEK_END /\ CookieSize(c) # {} /\ offset <= 0

\* -offset does not fit int64_t: the negation is undefined.
NegationOverflows(c, offset, whence) ==
  offset = MinOffset /\ Negates(c, offset, whence)

Refused(errno) == [ret |-> {}, errno |-> errno]
Target(new_pos) == [ret |-> {new_pos}, errno |-> NoErrno]

\* Seek, lines 124-195: the position asked for, or nothing (absl::nullopt)
\* with the errno left when it is refused.
CookieSeekTarget(c, offset, whence) ==
  IF whence = SEEK_SET
    THEN IF offset < 0 THEN Refused("EINVAL") ELSE Target(offset)
  ELSE IF whence = SEEK_CUR
    THEN IF offset < 0
           THEN IF 0 - offset > CookiePos(c) THEN Refused("EINVAL")
                ELSE IF CookiePos(c) + offset > MaxOffset
                  THEN Refused("EINVAL")
                ELSE Target(CookiePos(c) + offset)
           ELSE IF CookiePos(c) > MaxOffset
                     \/ offset > MaxOffset - CookiePos(c)
                  THEN Refused("EINVAL")
                ELSE Target(CookiePos(c) + offset)
  ELSE IF CookieSize(c) = {} THEN Refused(CookieSizeErrno(c))
  ELSE IF offset > 0 \/ 0 - offset > TheCookieSize(c)
    THEN Refused("EINVAL")
  ELSE IF TheCookieSize(c) + offset > MaxOffset THEN Refused("EINVAL")
  ELSE Target(TheCookieSize(c) + offset)

\* Seek, lines 233-249: c is the cookie after ReadMode(new_pos).  The
\* function returns absl::optional<int64_t>, so each "return -1" gives an
\* optional that holds -1.
CookieSeekEntered(c, new_pos) ==
  IF ~c.reader THEN [c |-> c, ret |-> {0 - 1}, errno |-> StatusErrno]
  ELSE IF c.rpos # new_pos
    THEN [c |-> c, ret |-> {0 - 1},
          errno |-> IF ~c.rok THEN StatusErrno ELSE "EINVAL"]
  ELSE [c |-> c, ret |-> {new_pos}, errno |-> NoErrno]

\* Seek, lines 205-214 and 216-225: sk is what Reader::Seek or Writer::Seek
\* gave and still_ok tells whether the one sought is still ok.
CookieSought(sk, still_ok, new_pos) ==
  IF ~sk.ret
    THEN [c |-> sk.c, ret |-> {0 - 1},
          errno |-> IF ~still_ok THEN StatusErrno ELSE "EINVAL"]
    ELSE [c |-> sk.c, ret |-> {new_pos}, errno |-> NoErrno]

\* Mutant: a seek to the current position is passed on like any other.
CookieSeekTo_AlwaysSeeks(c, new_pos) ==
  IF c.reader
    THEN CookieSought(AnyReaderSeek(c, new_pos),
                      AnyReaderSeek(c, new_pos).c.rok, new_pos)
  ELSE IF c.random_access
    THEN CookieSought(AnyWriterSeek(c, new_pos),
                      AnyWriterSeek(c, new_pos).c.wok, new_pos)
  ELSE IF ~c.read_mode THEN [c |-> c, ret |-> {0 - 1}, errno |-> "ESPIPE"]
  ELSE CookieSeekEntered(AnyWriterReadMode(c, new_pos), new_pos)

\* Seek, lines 196-249.
CookieSeekTo(c, new_pos) ==
  IF new_pos = CookiePos(c)
    THEN [c |-> c, ret |-> {new_pos}, errno |-> NoErrno]
  ELSE IF c.reader
    THEN CookieSought(AnyReaderSeek(c, new_pos),
                      AnyReaderSeek(c, new_pos).c.rok, new_pos)
  ELSE IF c.random_access
    THEN CookieSought(AnyWriterSeek(c, new_pos),
                      AnyWriterSeek(c, new_pos).c.wok, new_pos)
  ELSE IF ~c.read_mode THEN [c |-> c, ret |-> {0 - 1}, errno |-> "ESPIPE"]
  ELSE CookieSeekEntered(AnyWriterReadMode(c, new_pos), new_pos)

\* What Seek may go on with after the undefined negation: it refuses, or
\* seeks to some position.
UndefinedTargets == {{}} \cup {{p} : p \in 0..MaxOffset}

\* Seek(offset, whence); ub is the outcome the build gives to the undefined
\* negation, when there is one.
CookieSeek(c, offset, whence, ub) ==
  IF NegationOverflows(c, offset, whence)
    THEN IF ub = {} THEN [c |-> c, ret |-> {}, errno |-> "EINVAL"]
         ELSE CookieSeekTo(c, CHOOSE p \in ub : TRUE)
  ELSE LET t == CookieSeekTarget(c, offset, whence)
       IN IF t.ret = {} THEN [c |-> c, ret |-> {}, errno |-> t.errno]
          ELSE CookieSeekTo(c, CHOOSE p \in t.ret : TRUE)

\* WriterCFileSeek, lines 262-272: the callback given to fopencookie; ret is
\* what it returns and offset what it leaves in *offset.
WriterCFileSeek(c, offset, whence, ub) ==
  LET new_pos == CookieSeek(c, offset, whence, ub)
  IN IF new_pos.ret = {}
       THEN [c |-> new_pos.c, ret |-> 0 - 1, offset |-> 0 - 1,
             errno |-> new_pos.errno]
       ELSE [c |-> new_pos.c, ret |-> 0,
             offset |-> CHOOSE p \in new_pos.ret : TRUE,
             errno |-> new_pos.errno]

(***************************************************************************)
(* Runs of a FILE made by WriterCFile: the callbacks stdio makes           *)
(***************************************************************************)
FileWrites == {<<"Q">>, <<"Q", "Q">>}
WrittenBefore == {<<>>, <<"x", "y", "z">>}

NewCookie(dest, random_access, read_mode, supports_size, flush, fails) ==
  [dest |-> dest, wpos |-> Len(dest), wok |-> TRUE,
   random_access |-> random_access, read_mode |-> read_mode,
   supports_size |-> supports_size, flush |-> flush,
   reader_fails |-> fails,
   reader |-> FALSE, rpos |-> 0, rok |-> TRUE, closed |-> FALSE]

InitCookie ==
  /\ data = <<>>
  /\ rd = NewReader(<<>>, 0, FALSE)
  /\ tw = rd
  /\ out = <<>>
  /\ hist = "mixed"
  /\ last = NoCall
  /\ tlast = NoCall
  /\ step = 0
  /\ w = NewWriter(1, 0, 0, 0)
  /\ written = <<>>
  /\ wlast = NoWCall
  /\ ir = NoStream /\ ilast = NoICall
  /\ \E dest \in WrittenBefore,
        random_access, read_mode, supports_size, flush,
        reader_fails \in BOOLEAN :
       /\ reader_fails => read_mode
       /\ ck = NewCookie(dest, random_access, read_mode, supports_size,
                         flush, reader_fails)
  /\ clast = NoCCall

\* A callback op that took the cookie to c: n is the length or the offset
\* it was given, whence and src its other arguments, ret what it returned,
\* offset what it left in *offset and got the bytes it read; before is the
\* cookie a write callback found.
Callback(op, n, whence, src, before, c, ret, offset, got, errno) ==
  /\ ck' = c
  /\ clast' = [op |-> op, n |-> n, whence |-> whence, src |-> src,
               before |-> before, ret |-> ret, offset |-> offset,
               got |-> got, errno |-> errno]
  /\ UNCHANGED <<rvars, wvars, ivars>>

WriterCFileRead ==
  \E length \in 1..MaxFileRead :
    Callback("Read", length, SEEK_SET, NoBytes, NoCookie,
             CookieRead(ck, length).c,
             CookieRead(ck, length).ret, 0, CookieRead(ck, length).got,
             CookieRead(ck, length).errno)

WriterCFileWrite ==
  \E src \in FileWrites :
    /\ Len(ck.dest) + Len(src) <= MaxDest
    /\ Callback("Write", Len(src), SEEK_SET, src, ck, CookieWrite(ck, src).c,
                CookieWrite(ck, src).ret, 0, NoBytes, NoErrno)

\* The offsets stdio passes: small ones, the largest and the least.
SeekOffsets == {MinOffset, 0 - 2, 0 - 1, 0, 1, MaxOffset}

DoWriterCFileSeek ==
  \E offset \in SeekOffsets, whence \in {SEEK_SET, SEEK_CUR, SEEK_END},
     ub \in UndefinedTargets :
    /\ NegationOverflows(ck, offset, whence) \/ ub = {}
    /\ LET sk == WriterCFileSeek(ck, offset, whence, ub)
       IN Callback("Seek", offset, whence, NoBytes, NoCookie,
                   sk.c, sk.ret, sk.offset, NoBytes, sk.errno)

NextCookie ==
  \/ WriterCFileRead
  \/ WriterCFileWrite
  \/ DoWriterCFileSeek

SpecCookie == InitCookie /\ [][NextCookie]_vars

(***************************************************************************)
(* Claims about the FILE cookie                                            *)
(***************************************************************************)
\* The last callback was a write made while the cookie was in read mode.
WriteInReadMode == clast.op = "Write" /\ clast.before.reader

\* The Writer can be moved to where the Reader stands: it is healthy and it
\* either stands there already or supports random access.
WriterCanFollow(c) == c.wok /\ (c.rpos = c.wpos \/ c.random_access)

\* C11: a write callback made in read mode drops the Reader and writes the
\* bytes at the position the Reader had, wherever the Writer stood; it
\* returns their count.  When the Writer cannot be moved there, nothing is
\* written and 0 is returned.
C11_WriteAfterRead ==
  WriteInReadMode =>
    /\ ~ck.reader
    /\ IF WriterCanFollow(clast.before)
         THEN /\ clast.ret = Len(clast.src)
              /\ ck.dest = Overwrite(clast.before.dest, clast.before.rpos,
                                     clast.src)
              /\ ck.wpos = clast.before.rpos + Len(clast.src)
         ELSE /\ clast.ret = 0
              /\ ck.dest = clast.before.dest

C11_Witness ==
  /\ WriteInReadMode
  /\ clast.before.dest = <<"x", "y", "z">> /\ clast.before.rpos = 3
  /\ clast.src = <<"Q">> /\ clast.ret = 1
  /\ ck.dest = <<"x", "y", "z", "Q">> /\ ck.wpos = 4

\* C19: the seek callback returns 0 or -1; when it returns 0 the seek was
\* done and *offset holds the position the FILE now has; when the seek was
\* refused or failed it returns -1.
C19_SeekResult ==
  clast.op = "Seek" =>
    /\ clast.ret \in {0, 0 - 1}
    /\ clast.ret = 0 => clast.offset >= 0 /\ clast.offset = CookiePos(ck)
    /\ clast.ret = 0 - 1 => clast.offset = 0 - 1

(***************************************************************************)
(* Properties of BufferedWriter::LengthToWriteDirectly and WriteSlow       *)
(***************************************************************************)
\* The writer is below its size hint and buffering a short write would not
\* reach it: no byte is buffered, or the whole buffer ends below the hint.
BelowSizeHint(x) ==
  /\ wpos(x) < x.size_hint
  /\ \/ x.buf = <<>>
     \/ x.start_pos + (x.limit - x.start) < x.size_hint

\* C25: in every state of the writer LengthToWriteDirectly() is
\* min(buffer_size, size_hint - pos()) when pos() < size_hint and the buffer
\* holds no written bytes or limit_pos() < size_hint, and buffer_size in
\* every other state; size_hint - pos() is then at least 1, and the result
\* lies in 1 .. buffer_size.
C25_LengthToWriteDirectly ==
  LET l == LengthToWriteDirectly(w)
      left == w.size_hint - wpos(w)
  IN /\ BelowSizeHint(w) =>
          /\ left >= 1
          /\ l = (IF w.buffer_size <= left THEN w.buffer_size ELSE left)
     /\ ~BelowSizeHint(w) => l = w.buffer_size
     /\ w.buffer_size >= 1 => l \in 1..w.buffer_size

\* A Write left bytes in the buffer, one byte below the size hint: less than
\* buffer_size is written directly.
C25_Witness ==
  /\ wlast.op = "Write"
  /\ w.ok /\ w.buf # <<>>
  /\ BelowSizeHint(w)
  /\ LengthToWriteDirectly(w) = 1
  /\ w.buffer_size = 2

\* WriteSlow(src) may be called: the writer is open and healthy and src does
\* not fit in the space available.
CanWriteSlow(x, src) == x.ok /\ ~x.closed /\ available(x) < Len(src)

\* The WriteInternal calls c made on x when the buffered bytes went first and
\* src followed in one call of its own: one call for a buffer that held
\* bytes, one for src, and the sink has taken both when the calls succeeded.
FlushedThenDirect(x, src, c) ==
  /\ c.w.calls = x.calls + (IF x.buf = <<>> THEN 1 ELSE 2)
  /\ c.ret => c.w.sink = x.sink \o x.buf \o src

\* The call c moved only bytes that were in the buffer: what reached
\* WriteInternal stops before the last byte of src.
OnlyFromBuffer(x, src, c) ==
  \E k \in 0..(Len(x.buf) + Len(src) - 1) :
    c.w.sink = x.sink \o SubSeq(x.buf \o src, 1, k)

\* C24, as stated: WriteSlow(src) with |src| >= LengthToWriteDirectly()
\* passes the buffered bytes to WriteInternal and then calls WriteInternal
\* exactly once with the whole of src, leaving the buffer empty; a shorter
\* src is not passed to WriteInternal directly.
C24_AlwaysDirect ==
  \A n \in 1..MaxWrite, slack \in 0..MaxSlack :
    LET src == NextBytes(n)
        c == WriteSlow(w, src, slack)
    IN CanWriteSlow(w, src) =>
         IF n >= LengthToWriteDirectly(w)
           THEN FlushedThenDirect(w, src, c) /\ c.w.buf = <<>>
           ELSE OnlyFromBuffer(w, src, c)

\* C24, amended: with |src| >= LengthToWriteDirectly() the buffer is empty
\* afterwards and the buffered bytes are passed to WriteInternal first; when
\* that call fails WriteSlow returns false and src is never passed to
\* WriteInternal; otherwise WriteInternal is called exactly once with the
\* whole of src, and WriteSlow returns what that call returns.  A shorter
\* src is not passed to WriteInternal directly: on success its last bytes
\* are left in the buffer.
C24_DirectAfterFlush ==
  \A n \in 1..MaxWrite, slack \in 0..MaxSlack :
    LET src == NextBytes(n)
        c == WriteSlow(w, src, slack)
    IN CanWriteSlow(w, src) =>
         IF n >= LengthToWriteDirectly(w)
           THEN /\ c.w.buf = <<>> /\ start_to_limit(c.w) = 0
                /\ c.ret => FlushedThenDirect(w, src, c) /\ c.w.ok
                /\ ~c.ret =>
                     /\ ~c.w.ok
                     /\ \/ /\ w.buf # <<>>
                           /\ c.w.sink = w.sink
                           /\ c.w.calls = w.calls + 1
                        \/ /\ c.w.sink = w.sink \o w.buf
                           /\ c.w.calls
                                = w.calls + (IF w.buf = <<>> THEN 1 ELSE 2)
           ELSE /\ OnlyFromBuffer(w, src, c)
                /\ c.ret =>
                     /\ c.w.buf # <<>>
                     /\ c.w.sink \o c.w.buf = w.sink \o w.buf \o src

\* A Write flushed the buffer and then handed its bytes to WriteInternal in
\* a second call.
C24_Witness ==
  /\ wlast.op = "Write" /\ wlast.n >= 1 /\ wlast.ok0 /\ ~wlast.refused
  /\ w.calls = wlast.calls0 + 2
  /\ w.buf = <<>>
  /\ SubSeq(w.sink, Len(w.sink) - wlast.n + 1, Len(w.sink))
       = SubSeq(written, Len(written) - wlast.n + 1, Len(written))

(***************************************************************************)
(* Properties of the scratch of the PullableReader                         *)
(***************************************************************************)
\* C26: between public operations, whenever scratch is in use the buffer
\* pointers point to the scratch buffer: start is its data() and
\* start_to_limit() is its size().
C26_PointersInScratch ==
  scratch_used(rd) =>
    /\ rd.start = ScratchData
    /\ start_to_limit(rd) = Len(rd.sbuf)

\* A ReadHint went behind a partly read scratch and came back to it.
C26_Witness ==
  /\ last.op = "ReadHint" /\ last.scratch0
  /\ scratch_used(rd) /\ rd.start < rd.cursor /\ rd.cursor < rd.limit

\* C27: whenever scratch is in use, the scratch buffer holds the source bytes
\* at positions limit_pos - size .. limit_pos - 1 and the cursor saved for
\* the underlying buffer stands at the source byte of position limit_pos;
\* SyncScratch from any cursor inside scratch restores the saved pointers
\* and gives pos() = the former limit_pos.
C27_ScratchContents ==
  scratch_used(rd) =>
    /\ rd.limit_pos >= Len(rd.sbuf)
    /\ rd.sbuf = Source(rd.limit_pos - Len(rd.sbuf), Len(rd.sbuf))
    /\ rd.ostart # NullPtr => rd.ostart + rd.ostc = SrcAddr(rd.limit_pos)
    /\ \A c \in rd.start..rd.limit :
         LET s == SyncScratch(set_cursor(rd, c))
         IN /\ ~scratch_used(s)
            /\ s.start = rd.ostart
            /\ start_to_limit(s) = rd.ostl
            /\ start_to_cursor(s) = rd.ostc
            /\ pos(s) = rd.limit_pos
            /\ View(s) = Source(rd.limit_pos, rd.ostl - rd.ostc)

\* A Pull gathered a scratch of three bytes or more from several fragments
\* and stopped inside the last one, which has bytes left behind the scratch.
C27_Witness ==
  /\ last.op = "Pull" /\ last.ret /\ scratch_used(rd)
  /\ Len(rd.sbuf) >= 3 /\ rd.frag >= 2
  /\ rd.ostc > 0 /\ rd.ostc < rd.ostl

\* C28: ScratchEnds() called with scratch in use.  When it returns true the
\* scratch is no longer in use, pos() is unchanged and the bytes readable
\* from the cursor begin with the bytes that were unread in scratch; when it
\* returns false nothing has changed; it returns true whenever available()
\* is 0.
C28_ScratchEnds ==
  scratch_used(rd) =>
    LET e == ScratchEnds(rd)
    IN /\ e.ret =>
            /\ ~scratch_used(e.r)
            /\ pos(e.r) = pos(rd)
            /\ available(e.r) >= available(rd)
            /\ Bytes(e.r, e.r.cursor, available(rd)) = View(rd)
            /\ e.r.start = rd.ostart
            /\ start_to_limit(e.r) = rd.ostl
       /\ ~e.ret => e.r = rd
       /\ available(rd) = 0 => e.ret

\* A Sync of a reader without random access left a scratch with unread
\* bytes: the cursor went back in the underlying buffer.
C28_Witness ==
  /\ last.op = "Sync" /\ last.scratch0 /\ last.ret /\ ~rd.ra
  /\ ~scratch_used(rd)
  /\ rd.start = rd.ostart /\ rd.start # NullPtr
  /\ rd.cursor < rd.ostart + rd.ostc
  /\ pos(rd) = last.pos0

\* C21: over any sequence of public operations the hooks PullBehindScratch,
\* ReadBehindScratch, CopyBehindScratch, ReadHintBehindScratch,
\* SeekBehindScratch, SyncBehindScratch and DoneBehindScratch are only
\* entered while scratch is not in use: no '!scratch_used()' assertion has
\* failed.
C21_HooksBehindScratch == ~rd.hook_in_scratch /\ ~tw.hook_in_scratch

\* A reader with random access was closed inside a partly read scratch:
\* SyncScratch, Seek (SeekBehindScratch), then DoneBehindScratch at the
\* position the caller had.
C21_Witness ==
  /\ last.op = "Close" /\ last.scratch0 /\ rd.ra /\ rd.closed
  /\ rd.done_at = last.pos0 /\ rd.frag >= 2
  /\ ~rd.hook_in_scratch

(***************************************************************************)
(* More claims about the IStreamReader                                     *)
(***************************************************************************)
\* The reader made over a stream that has not failed, with assumed_pos = a.
Assumed(stream, growing, a) ==
  Initialize(NewIStreamReader(stream, growing), {a})

\* Construction with an assumed position: up to MaxOffset the reader starts
\* there, healthy, with random access false and the stream neither sought
\* nor asked for its position; above MaxOffset it fails with an overflow.
AssumedStart ==
  \A stream \in Streams, growing \in BOOLEAN :
    ~stream.failbit =>
      /\ \A a \in {0, 1, MaxOffset} :
           /\ Assumed(stream, growing, a).ok
           /\ Assumed(stream, growing, a).limit_pos = a
           /\ Assumed(stream, growing, a).supports_random_access_ = "false"
           /\ ~Assumed(stream, growing, a).sought
      /\ ~Assumed(stream, growing, MaxOffset + 1).ok
      /\ Assumed(stream, growing, MaxOffset + 1).status
           = "resource-exhausted"
      /\ ~Assumed(stream, growing, MaxOffset + 1).sought

\* C23: a reader constructed with assumed_pos <= MaxOffset starts with
\* limit_pos = assumed_pos and random access false, and no later Read, Seek,
\* Size or Close issues a seek or a position query on the stream (a stream
\* never sought stays never sought, and random access stays false); an
\* assumed_pos above MaxOffset makes construction fail with an overflow.
C23_AssumedPosNeverSeeks ==
  /\ [](AssumedStart
        /\ (~ir.sought => ir.supports_random_access_ = "false"))
  /\ [][~ir.sought => ~ir'.sought]_vars

\* A reader over a seekable file, constructed at the assumed position 1, has
\* read on and was then asked for its size: the file was never sought.
C23_Witness ==
  /\ ilast.op = "Size" /\ ilast.before.ok
  /\ ir.kind = "file" /\ ~ir.sought
  /\ ilast.before.limit_pos >= 2

\* ReadInternal may be called on x: the reader is open and healthy, over a
\* stream that will not break.
CanReadInternal(x) ==
  x.ok /\ ~x.closed /\ x.breakAt >= x.size /\ Steady(x)

\* The size is known and limit_pos is not below it.
AtKnownEnd(x) == x.size_ # {} /\ x.limit_pos >= TheSize(x)

\* The outcome c of a ReadInternal(min_length, ...) on x that met the end of
\* the data: the flags of the stream are clear, the size is limit_pos,
\* limit_pos moved by the bytes stored, which are all that the stream had
\* left, and the result tells whether they are at least min_length.
EndOfData(x, c, min_length) ==
  /\ c.r.ok
  /\ ~c.r.eofbit /\ ~c.r.failbit /\ ~c.r.badbit
  /\ c.r.size_ = {c.r.limit_pos}
  /\ c.r.limit_pos = x.limit_pos + Len(c.got)
  /\ c.got = Offsets(x.spos, x.size - x.spos)
  /\ c.ret = (Len(c.got) >= min_length)

\* A ReadInternal on x returns false and leaves reader and stream as they
\* were, whatever is asked.
RefusedUntouched(x) ==
  \A m \in 1..IMaxRead :
    ReadInternal(x, m, IMaxRead) = [r |-> x, ret |-> FALSE, got |-> NoBytes]

\* C29: on a source that does not grow, a ReadInternal(min, max) that meets
\* the end of the data (the stream has fewer than min bytes left) clears the
\* EOF and fail flags of the stream, records size = limit_pos, has moved
\* limit_pos by the number of bytes stored and returns true iff at least min
\* bytes were collected; every later ReadInternal with limit_pos >= size
\* returns false without touching the stream.
C29_EndOfData ==
  (CanReadInternal(ir) /\ ~ir.growing_source) =>
    /\ AtKnownEnd(ir) => RefusedUntouched(ir)
    /\ \A min_length \in 1..IMaxRead, max_length \in 1..IMaxRead :
         (/\ min_length <= max_length
          /\ ~AtKnownEnd(ir)
          /\ ir.limit_pos + min_length <= MaxOffset
          /\ ir.size - ir.spos < min_length) =>
           /\ EndOfData(ir, ReadInternal(ir, min_length, max_length),
                        min_length)
           /\ RefusedUntouched(ReadInternal(ir, min_length, max_length).r)

\* A Read over a pipe whose size was not known came to the end of the data
\* after some bytes: it returned false, the reader is healthy and the size is
\* recorded.
C29_Witness ==
  /\ ilast.op = "Read" /\ ~ilast.ret /\ ir.ok /\ ~ir.growing_source
  /\ ir.kind = "pipe"
  /\ ilast.before.size_ = {} /\ ir.size_ = {ir.limit_pos}
  /\ Len(ilast.got) >= 1
  /\ ~ir.eofbit /\ ~ir.failbit

\* C30: limit_pos never exceeds MaxOffset; ReadInternal(min, max) stores no
\* more than MaxOffset - limit_pos bytes and, when that is less than min,
\* fails with an overflow without reading anything; and no position above
\* MaxOffset is ever passed to the seek of the stream.
C30_PositionsFit ==
  /\ ir.limit_pos <= MaxOffset
  /\ ~ir.past_offset
  /\ (ir.ok /\ ~ir.closed) =>
       \A min_length \in 1..IMaxRead, max_length \in 1..IMaxRead :
         min_length <= max_length =>
           /\ ReadInternal(ir, min_length, max_length).r.limit_pos
                <= MaxOffset
           /\ Len(ReadInternal(ir, min_length, max_length).got)
                <= MaxOffset - ir.limit_pos
           /\ (~AtKnownEnd(ir) /\ MaxOffset - ir.limit_pos < min_length) =>
                ReadInternal(ir, min_length, max_length)
                  = [r |-> IStreamFailOverflow(ir), ret |-> FALSE,
                     got |-> NoBytes]

\* A Read at position MaxOffset of a stream that had bytes left failed with
\* an overflow and took nothing from the stream.
C30_Witness ==
  /\ ilast.op = "Read" /\ ilast.before.ok /\ ~ilast.ret
  /\ pos(ilast.before) = MaxOffset
  /\ ~ir.ok /\ ir.status = "resource-exhausted"
  /\ ir.spos = ilast.before.spos /\ ir.spos < ir.size
  /\ ir.limit_pos = MaxOffset

\* The Reader that ReadMode(writer.pos()) would return does not stand at
\* writer.pos(): the Writer enters read mode, but its Reader fails on the
\* way there.
ReaderWouldStray(c) ==
  ~c.reader /\ c.wok /\ c.read_mode /\ c.reader_fails /\ c.wpos > 0

\* reader_ is a Reader that was returned away from the position asked for.
ReaderStrayed(c) == c.reader /\ ~c.rok

\* No read callback on c delivers a byte.
ReadsNothing(c) ==
  \A length \in 1..MaxFileRead :
    /\ CookieRead(c, length).got = NoBytes
    /\ CookieRead(c, length).ret \in {0, 0 - 1}

\* C22: a read callback delivers bytes only from the logical position of
\* the FILE (the Writer's position in write mode, the Reader's in read
\* mode): the first one in write mode enters read mode at writer.pos();
\* when the Reader that ReadMode returned is not there it returns -1, and
\* no later read callback delivers bytes from that Reader.
C22_ReadsAtFilePosition ==
  /\ ReaderStrayed(ck) => ReadsNothing(ck)
  /\ \A length \in 1..MaxFileRead :
       /\ ReaderWouldStray(ck) =>
            /\ CookieRead(ck, length).ret = 0 - 1
            /\ CookieRead(ck, length).got = NoBytes
            /\ ReaderStrayed(CookieRead(ck, length).c)
            /\ ReadsNothing(CookieRead(ck, length).c)
       /\ CookieRead(ck, length).ret > 0 =>
            /\ CookieRead(ck, length).got
                 = SubSeq(ck.dest, CookiePos(ck) + 1,
                          CookiePos(ck) + CookieRead(ck, length).ret)
            /\ CookieRead(ck, length).c.reader
            /\ CookieRead(ck, length).c.rpos
                 = CookiePos(ck) + CookieRead(ck, length).ret
       /\ CookieRead(ck, length).ret <= 0 =>
            CookieRead(ck, length).got = NoBytes

\* A read callback found the Reader that had failed on its way to the
\* Writer's position, with bytes written behind where it stands: it
\* delivered nothing.
C22_Witness ==
  /\ clast.op = "Read" /\ clast.ret = 0 /\ clast.got = NoBytes
  /\ ReaderStrayed(ck)
  /\ ck.wok /\ ck.wpos > 0 /\ ck.rpos < Len(ck.dest)


(***************************************************************************)
(* Failures of the stream inside IStreamReaderBase::ReadInternal           *)
(***************************************************************************)
\* C31: when the stream reports a hard failure (badbit) during
\* ReadInternal, the reader is failed and ReadInternal returns false, also
\* when the failing read had stored at least min_length bytes; ReadInternal
\* returns true only if the reader is still ok.
C31_HardFailure ==
  (ir.ok /\ ~ir.closed) =>
    \A min_length \in 1..IMaxRead, max_length \in 1..IMaxRead :
      min_length <= max_length =>
        /\ ReadInternal(ir, min_length, max_length).r.badbit =>
             /\ ~ReadInternal(ir, min_length, max_length).r.ok
             /\ ~ReadInternal(ir, min_length, max_length).ret
        /\ ReadInternal(ir, min_length, max_length).ret =>
             ReadInternal(ir, min_length, max_length).r.ok

\* The probe of random access, run by ReadInternal(min_length, max_length)
\* on x before anything is read, fails the reader.
ProbeFailsInRead(x, min_length, max_length) ==
  /\ x.ok /\ ~x.closed /\ ~AtKnownEnd(x)
  /\ x.supports_random_access_ = "unknown"
  /\ min_length < max_length /\ max_length <= MaxOffset - x.limit_pos
  /\ ~supports_random_access(x).r.ok

\* C32: once the reader is failed, nothing more is read from the stream,
\* limit_pos does not move and no size is recorded: a Read on a failed
\* reader leaves them alone, and a ReadInternal whose probe of
\* random access failed the reader returns false with the stream, limit_pos
\* and the size as the failed probe left them.
C32_NothingAfterFailure ==
  /\ (ilast.op = "Read" /\ ~ilast.before.ok) =>
       /\ ir.spos = ilast.before.spos
       /\ ir.limit_pos = ilast.before.limit_pos
       /\ ir.size_ = ilast.before.size_
  /\ \A min_length \in 1..IMaxRead, max_length \in 1..IMaxRead :
       ProbeFailsInRead(ir, min_length, max_length) =>
         /\ ~ReadInternal(ir, min_length, max_length).ret
         /\ ReadInternal(ir, min_length, max_length).got = NoBytes
         /\ ReadInternal(ir, min_length, max_length).r.spos
              = supports_random_access(ir).r.spos
         /\ ReadInternal(ir, min_length, max_length).r.limit_pos
              = supports_random_access(ir).r.limit_pos
         /\ ReadInternal(ir, min_length, max_length).r.size_
              = supports_random_access(ir).r.size_


(***************************************************************************)
(* Seek, Size, Truncate and ReadMode of a BufferedWriter whose leaf keeps  *)
(* the default hooks                                                       *)
(***************************************************************************)
\* The writer y after one of these calls on x: the buffer is gone and the
\* writer is failed.  On a healthy x the buffered bytes went to WriteInternal
\* in one call, before anything else: when that call took them the failure
\* is the unimplemented operation, when it failed the failure is its own and
\* the sink got nothing.  A failed x keeps its status and its sink.
FlushedThenUnimplemented(x, y) ==
  /\ ~y.ok /\ y.buf = <<>> /\ available(y) = 0
  /\ x.ok =>
       /\ y.calls = x.calls + (IF x.buf = <<>> THEN 0 ELSE 1)
       /\ \/ y.status = "unimplemented" /\ y.sink = x.sink \o x.buf
          \/ /\ x.buf # <<>> /\ y.sink = x.sink
             /\ y.status \in {"unknown", "resource-exhausted"}
  /\ ~x.ok => y.status = x.status /\ y.sink = x.sink /\ y.calls = x.calls

\* C33: with the default hooks, Seek(new_pos) to another position, Size(),
\* Truncate(n) and ReadMode(p) first pass the buffered bytes to
\* WriteInternal and then fail as unimplemented, returning false, nothing or
\* null and leaving the writer failed; Seek(pos()) changes nothing and
\* returns true.
C33_Unimplemented ==
  ~w.closed =>
    /\ \A q \in 0..MaxPosition :
         IF q = wpos(w) THEN WSeek(w, q) = [w |-> w, ret |-> TRUE]
         ELSE /\ FlushedThenUnimplemented(w, WSeek(w, q).w)
              /\ ~WSeek(w, q).ret
    /\ FlushedThenUnimplemented(w, SizeImpl(w).w)
    /\ SizeImpl(w).w.status = "unimplemented" => SizeImpl(w).ret = {}
    /\ \A n \in 0..MaxWritten :
         /\ FlushedThenUnimplemented(w, TruncateImpl(w, n).w)
         /\ ~TruncateImpl(w, n).ret
         /\ FlushedThenUnimplemented(w, ReadModeImpl(w, n).w)
         /\ ReadModeImpl(w, n).ret = NullPtr

\* A Seek to another position on a healthy writer with bytes in its buffer:
\* they went to the sink in one WriteInternal call and the writer failed as
\* unimplemented.
C33_Witness ==
  /\ wlast.op = "Seek" /\ wlast.ok0 /\ wlast.n # wlast.pos0 /\ wlast.refused
  /\ w.calls = wlast.calls0 + 1
  /\ ~w.ok /\ w.status = "unimplemented"
  /\ w.sink = written /\ written # <<>>


(***************************************************************************)
(* Seek of a PullableReader whose leaf keeps the default SeekBehindScratch *)
(***************************************************************************)
\* The reader on its underlying buffer: what hides behind the scratch.
Underlying(r) == IF scratch_used(r) THEN SyncScratch(r) ELSE r

\* A fetch that the leaf has not made yet fails.
SourceFails(r) == r.failAt > r.frag

\* The position up to which the source delivers bytes.
SourceEnd(r) ==
  IF SourceFails(r) THEN SumTo(r.cuts, r.failAt - 1) ELSE Len(data)

\* The outcome c of Seek(q) on x, whose underlying buffer is that of u.
SoughtByDefault(x, u, q, c) ==
  IF InBuffer(u, q)
    THEN /\ c = [r |-> SeekInBuffer(u, q), ret |-> TRUE]
         /\ pos(c.r) = q /\ c.r.ok
         /\ c.r.frag = x.frag /\ c.r.limit_pos = u.limit_pos
  ELSE IF q < start_pos(u)
    THEN /\ ~c.ret /\ ~c.r.ok /\ c.r.status = "unimplemented"
         /\ c.r.frag = x.frag
  ELSE IF q <= SourceEnd(x)
    THEN c.ret /\ c.r.ok /\ pos(c.r) = q
  ELSE IF SourceFails(x)
    THEN ~c.ret /\ ~c.r.ok /\ c.r.status = "unknown"
  ELSE ~c.ret /\ c.r.ok /\ pos(c.r) = Len(data)

\* C34: with the default SeekBehindScratch, Seek(q) to a position outside
\* the current buffer (scratch or not) fails as unimplemented when q lies
\* before the underlying buffer; when q lies beyond it, it returns true with
\* pos() = q if the source has q bytes, and else false with pos() at the end
\* of the source and the reader ok (unless the source itself fails on the
\* way); and a q inside the underlying buffer behind the scratch is served
\* by moving the cursor, no hook being called.
C34_DefaultSeek ==
  (rd.ok /\ ~rd.closed /\ ~rd.ra) =>
    \A q \in 0..(MaxLen + 1) :
      ~InBuffer(rd, q) =>
        SoughtByDefault(rd, Underlying(rd), q, Seek(rd, q))

\* A Seek from within the scratch to a position past the end of the source:
\* it returned false and left the healthy reader at the end.
C34_Witness ==
  /\ last.op = "Seek" /\ last.ok0 /\ last.scratch0 /\ ~rd.ra
  /\ last.n > Len(data) /\ ~last.ret
  /\ rd.ok /\ pos(rd) = Len(data) /\ last.pos0 < Len(data)


(***************************************************************************)
(* More claims about the seek and read callbacks of the FILE cookie        *)
(***************************************************************************)
\* The Writer can neither seek nor be read.
Unseekable(c) == ~c.random_access /\ ~c.read_mode

\* Seek(offset, whence) on c computes new_pos without an undefined step.
SeeksTo(c, offset, whence, new_pos) ==
  /\ ~NegationOverflows(c, offset, whence)
  /\ CookieSeekTarget(c, offset, whence).ret = {new_pos}

\* C35: a Seek whose target is the current position of the FILE (the
\* Reader's in read mode, else the Writer's) returns that position, sets no
\* errno and leaves the cookie, its Writer and its Reader as they were: no
\* Seek or ReadMode is called and the mode is kept, also when the Writer
\* supports neither random access nor read mode; a Seek to another position
\* on such a Writer leaves ESPIPE in errno and changes nothing.
C35_SeekToCurrent ==
  \A offset \in MinOffset..MaxOffset, whence \in {SEEK_SET, SEEK_CUR, SEEK_END} :
    /\ SeeksTo(ck, offset, whence, CookiePos(ck)) =>
         CookieSeek(ck, offset, whence, {})
           = [c |-> ck, ret |-> {CookiePos(ck)}, errno |-> NoErrno]
    /\ \A new_pos \in 0..MaxOffset :
         (/\ Unseekable(ck) /\ new_pos # CookiePos(ck)
          /\ SeeksTo(ck, offset, whence, new_pos)) =>
            /\ CookieSeek(ck, offset, whence, {}).errno = "ESPIPE"
            /\ CookieSeek(ck, offset, whence, {}).c = ck

\* fseek(file, 0, SEEK_CUR) on a Writer that can neither seek nor be read,
\* after bytes were written: it succeeded with the position of the Writer.
C35_Witness ==
  /\ clast.op = "Seek" /\ clast.whence = SEEK_CUR /\ clast.n = 0
  /\ Unseekable(ck) /\ ck.wok /\ ~ck.reader
  /\ ck.wpos = 4 /\ ck.dest = <<"x", "y", "z", "Q">>
  /\ clast.ret = 0 /\ clast.offset = 4 /\ clast.errno = NoErrno


(***************************************************************************)
(* The result of BufferedWriter::SizeImpl                                  *)
(***************************************************************************)
\* C36: when passing the buffered bytes to WriteInternal fails during
\* Size(), Size() returns nothing, never a number such as 0.
C36_SizeAbsent ==
  /\ (~w.closed /\ w.buf # <<>> /\ ~SyncBuffer(w).ret) => SizeImpl(w).ret = {}
  /\ (wlast.op = "Size" /\ wlast.ok0 /\ w.status # "unimplemented") =>
       wlast.refused


(***************************************************************************)
(* Pull of a PullableReader and the position                               *)
(***************************************************************************)

\* The bytes which were unread in x are the first unread bytes of y.
StillReadable(x, y) ==
  available(y) >= available(x) /\ Prefix(View(y), available(x)) = View(x)

\* C37: Pull(min, rec) never changes pos(): whether it returns true, returns
\* false at the end of the stream after collecting fewer than min bytes into
\* the scratch, or builds a new scratch while an older one is partly unread,
\* pos() is as before and every byte unread before is still readable in order.
C37_PullKeepsPos ==
  /\ last.op = "Pull" => pos(rd) = last.pos0
  /\ ~rd.closed =>
       \A m \in 1..MaxReq : \A rec \in {m, MaxReq}, slack \in 0..MaxSlack :
         LET c == Pull(rd, m, rec, slack)
         IN pos(c.r) = pos(rd) /\ (c.r.ok => StillReadable(rd, c.r))

\* A Pull met the end of the stream while an earlier scratch was in use and
\* left the bytes it had collected, fewer than asked, in a new scratch.
C37_Witness ==
  /\ last.op = "Pull" /\ last.scratch0 /\ ~last.ret /\ rd.ok
  /\ scratch_used(rd) /\ available(rd) >= 2 /\ last.n > available(rd)
  /\ pos(rd) = last.pos0 /\ last.pos0 > 0


(***************************************************************************)
(* The arithmetic of the seek callback                                     *)
(***************************************************************************)
\* What whence counts from: 0, the current position or the size.
SeekBase(c, whence) ==
  IF whence = SEEK_SET THEN 0
  ELSE IF whence = SEEK_CUR THEN CookiePos(c)
  ELSE TheCookieSize(c)

\* The target is base + offset and can be told to the stream.
ExactTarget(c, offset, whence, t) ==
  /\ t.ret = {SeekBase(c, whence) + offset}
  /\ SeekBase(c, whence) + offset \in 0..MaxOffset
  /\ whence = SEEK_END => SeekBase(c, whence) + offset <= TheCookieSize(c)

\* C38: for every whence and every offset, the least one included, Seek
\* computes its target without an overflowing negation, addition or
\* subtraction: it reports EINVAL or the target is exactly base + offset,
\* within 0..2^63 - 1 and, for SEEK_END, not above the size.
C38_NoOverflow ==
  \A offset \in MinOffset..MaxOffset, whence \in {SEEK_SET, SEEK_CUR, SEEK_END} :
    (whence = SEEK_END => CookieSize(ck) # {}) =>
      /\ ~NegationOverflows(ck, offset, whence)
      /\ LET t == CookieSeekTarget(ck, offset, whence)
         IN IF t.ret = {} THEN t.errno = "EINVAL"
            ELSE ExactTarget(ck, offset, whence, t)


(***************************************************************************)
(* What the read callback returns                                          *)
(***************************************************************************)
\* The Reader of c is at the end of the data and has not failed.
AtEndOfFile(c) == c.reader /\ c.rok /\ c.rpos >= Len(c.dest)

\* Entering read mode failed, or the Reader has failed.
ReadFailed(c) == ~c.reader \/ ~c.rok

\* C39: the read callback returns n > 0 only after delivering exactly
\* n <= length bytes and advancing the Reader's pos() by n, returns 0 only
\* when the Reader is ok() and at the end of the stream, and returns -1 with
\* errno set whenever the Reader or the mode switch failed: a failed Reader
\* is never reported as end of file.
C39_ReadResult ==
  ~ck.closed =>
    \A length \in 1..MaxFileRead :
      LET rc == CookieRead(ck, length)
      IN /\ rc.ret > 0 =>
              /\ rc.ret <= length /\ Len(rc.got) = rc.ret
              /\ rc.c.reader /\ rc.c.rpos = CookiePos(ck) + rc.ret
         /\ rc.ret = 0 => AtEndOfFile(rc.c)
         /\ ReadFailed(rc.c) => (rc.ret = 0 - 1 /\ rc.errno # NoErrno)


(***************************************************************************)
(* The position of the stream and limit_pos                                *)
(***************************************************************************)
\* The position of the stream was told at Initialize() and the reader is
\* open and ok(): supports_random_access_ is unknown or true.
Tracked(x) == ~x.closed /\ x.ok /\ x.supports_random_access_ # "false"

\* C40: for a reader whose first position query succeeded (random access
\* unknown or true) and which is ok(), the read position of the stream
\* equals limit_pos after Initialize() and after every ReadInternal,
\* SeekBehindBuffer, SizeImpl and probe; Size() and the probe bring the
\* stream back from its end to where it was.
C40_SourceAtLimitPos ==
  /\ Tracked(ir) => ir.spos = ir.limit_pos
  /\ (Tracked(ir) /\ ilast.op = "Size") =>
       /\ ir.spos = ilast.before.spos
       /\ ir.limit_pos = ilast.before.limit_pos
  /\ (Tracked(ir) /\ Tracked(supports_random_access(ir).r)) =>
       /\ supports_random_access(ir).r.spos = ir.spos
       /\ supports_random_access(ir).r.limit_pos = ir.limit_pos

\* Size() of a growing source probed random access and asked for the size:
\* the stream was twice at its end, which lies behind limit_pos, and is back.
C40_Witness ==
  /\ ilast.op = "Size" /\ ilast.before.supports_random_access_ = "unknown"
  /\ Tracked(ir) /\ ir.supports_random_access_ = "true" /\ ir.growing_source
  /\ ilast.size = {ir.size} /\ ir.size > ir.limit_pos /\ ir.limit_pos > 0
  /\ ir.spos = ir.limit_pos /\ ir.sought

====
